---- MODULE Spec2Model ----
(***************************************************************************)
(* Verification model of the Playwright end-to-end suite: the run/report   *)
(* pipeline (runner configuration, result-tracking scenarios, afterAll     *)
(* persistence, CustomHtmlReporter) and the interaction helpers of         *)
(* TestHelpers (selector fallback chain, Kendo dropdown selection), the    *)
(* switch step of TS002, typing-simulation fills, modal confirmations,     *)
(* busy-flag waits, authentication and the custom report server.           *)
(***************************************************************************)
EXTENDS Integers, Sequences, FiniteSets, TLC

VARIABLES
    \* ---- test runner (playwright.config: workers, serial describe blocks)
    worker,          \* worker slot -> spec file it is running, or NoFile
    fileState,       \* spec file -> "pending" | "running" | "done"
    testStatus,      \* spec file -> scenario index -> runner status
    reported,        \* spec file -> scenario index -> onTestEnd was delivered
    pc,              \* spec file -> stage of the scenario that is running
    thrown,          \* spec file -> scenario index -> error that left the test function
    \* ---- result tracking inside the spec files
    results,         \* spec file -> module-level `results` array
    localResults,    \* the `results` array declared inside TS002 of all-test-suite
    \* ---- files on disk
    tempResultsJson, \* content of reports/temp-results.json
    htmlReport,      \* content of reports/test-report.html (its summary)
    \* ---- CustomHtmlReporter
    reports,         \* this.reports
    runEnded,        \* onEnd has run
    \* ---- history of the run (observations used by the properties)
    appended,        \* spec file -> scenario index -> records pushed by that execution
    stepError,       \* spec file -> scenario index -> error raised by the failing step
    ended,           \* scenarios in the order they reached a terminal runner status
    \* ---- TestHelpers.selectDeductibleInSection
    selPc,           \* position in the strategy chain
    section,         \* strategy whose locator `section` currently holds
    visible,         \* strategy -> its locator currently matches a visible element
    evaluated,       \* strategies whose locator was built, in order
    checks,          \* log of isVisible() results: <<strategy, result>>
    selResult,       \* "running" | "found" | "notFound"
    \* ---- dropdown selection (selectFromKendoDropdown, inline Limit selection)
    ddOp,            \* "helper" | "inline" | "keyboard"
    ddPc,            \* position inside the operation
    optionText,      \* desired option
    displayed,       \* text shown in the dropdown's .k-input
    displayed0,      \* text shown when the operation was invoked
    items,           \* texts of the .k-item elements of the option list
    listOpen,        \* .k-list[aria-hidden="false"] is visible
    attempt,         \* loop counter of the operation
    triggerClicks,   \* clicks issued on the dropdown trigger
    optionClicks,    \* clicks issued on an option
    ddResult,        \* "running" | "ok" | "error"
    \* ---- HomePage.retryClick
    rcMax,           \* maxAttempts
    rcAttempt,       \* loop variable `attempt`
    rcErrs,          \* errors caught by the attempts made so far, in order
    rcClicked,       \* locator.click() succeeded
    rcThrown,        \* error that left retryClick
    rcResult,        \* "idle" | "running" | "true" | "false" | "threw"
    \* ---- a scenario with its catch block and DOMCapture
    capKind,         \* "none" | "guide" (catch calls captureOnFailure) | "suite"
    capPc,           \* "idle" | "try" | "method" | "push" | "rethrow" | "passed" | "failed"
    capStep,         \* index of the test.step in progress
    capErr,          \* error caught by the scenario's catch block
    capCall,         \* DOMCapture method executing: "none" | "capture" | "captureOnFailure"
    capOps,          \* operations the executing method has still to do
    capRet,          \* where the scenario continues when the method returns
    capInclude,      \* includeScreenshot argument of DOMCapture.capture
    capCalls,        \* DOMCapture calls started so far (the clock of the timestamps)
    capFiles,        \* names of the files in dom-captures
    capLogged,       \* errors logged by the catch inside DOMCapture
    capMethodThrown, \* error that left a DOMCapture method
    capFailureCaptures, \* captureOnFailure calls that have returned
    capRecords,      \* records pushed by the scenario
    capRethrown,     \* error that left the test function
    \* ---- retries above the interaction primitives
    rtCi,            \* process.env.CI is set
    rtOp,            \* "none" | "navigate" (TS005 step) | "generate" (generateQuotePremium)
    rtRuns,          \* executions of the scenario started by the runner
    rtPc,            \* "idle" | "op" | "ended"
    rtRetryCount,    \* retryCount of the step's loop
    rtErrs,          \* errors caught in the current execution, in order
    rtReexec,        \* executions of an operation after it had failed in the same execution
    rtStatus,        \* "idle" | "running" | "passed" | "failed"
    \* ---- report generation applied to a list of records
    repGen,          \* "none" | "reporter" (onEnd) | "html" (generateHtmlReport)
    repList,         \* the records handed to the generator
    repOut,          \* the summary it rendered, NoSummary before
    \* ---- the suspension points of a scenario
    wtPc,            \* "idle" | "step" | "wait" | "loop" | "finish" | "ended"
    wtKind,          \* the wait in progress: "waitForElement" | "alertHidden" | "loadState"
    wtOption,        \* the timeout option the caller supplied
    wtTimeout,       \* timeout the wait runs with, in ms (0: none)
    wtElapsed,       \* ms the wait in progress has lasted
    wtClock,         \* ms the scenario has lasted
    wtLeft,          \* waits the scenario still has to make
    wtRetry,         \* retryCount of the Add/Edit enable loop
    wtStatus,        \* "idle" | "running" | "passed" | "failed" | "timedOut"
    \* ---- Non-Owned Auto switch step (TS002 step 5)
    swPc,            \* statement the step is at
    swOn,            \* the switch shows .switch-on
    swSeenOn,        \* isSwitchOn, as read by the step
    btnEnabled,      \* the row's Add/Edit button is enabled
    retryCount,      \* retryCount of the enable loop
    swClicks,        \* clicks on the switch label so far
    swBusy,          \* document.body carries the class pace-running
    swLog,           \* console lines of the step
    swResult,        \* "idle" | "running" | "ok" | "error"
    \* ---- typing-simulation fill of a field
    flOp,            \* "fillFieldSlowly" | "fillField" | "fillNameOfApplicant"
    flPc,            \* statement the fill is at
    flText,          \* the text to enter
    flValue,         \* the field's value
    flValue0,        \* the field's value when the fill was called
    flCaret,         \* characters of the value in front of the caret
    flKeys,          \* keystrokes sent so far
    flResult,        \* "idle" | "running" | "ok" | "error"
    \* ---- modal confirmation helpers
    alOp,            \* "handleSweetAlert" | "handleAlertPopup" | "handleAlertDialog"
    alAction,        \* 'accept' | 'dismiss'
    alPc,            \* statement the helper is at
    alPopup,         \* "absent" | "visible" | "hidden": the sweet-alert popup
    alTrace,         \* what the helper observed and did, in order
    alHandlers,      \* actions of the 'dialog' listeners registered on the page
    alCall,          \* confirmations started on this page so far
    alDialog,        \* the dialog of the last Save: "none" | "pending" | outcome
    alDialogCalls,   \* accept()/dismiss() calls made on that dialog
    alResult,        \* "idle" | "running" | "ok" | "error"
    \* ---- waits for the busy flag ('pace-running')
    bzScenario,      \* the caller whose busy-flag waits are followed
    bzIdx,           \* index of its current wait
    bzPc,            \* "idle" | "call" | "waiting" | "ended"
    bzBusy,          \* document.body carries the class pace-running
    bzElapsed,       \* ms the current wait has lasted
    bzTimeouts,      \* waits that ran into their timeout
    bzLog,           \* console lines written for timed-out waits
    bzResult,        \* "idle" | "running" | "passed" | "failed"
    \* ---- authentication: LoginPage.login and the authenticate setup
    auOp,            \* "login" | "setup"
    auSession,       \* session of the browser context when the operation starts
    auPc,            \* statement the operation is at
    auUrl,           \* where the page is: "blank" | "login" | "callback" | "app" | "home" | "other"
    auFault,         \* the environment failed the flow (server, credentials, redirect)
    auStored,        \* storageState({ path }) calls made
    auClock,         \* ms the operation's test has lasted
    auLog,           \* console lines of the operation
    auResult,        \* "idle" | "running" | "ok" | "error"
    \* ---- custom report server (show-custom-report.js)
    srvReq,          \* request id -> [url, state, status] of that request
    srvReport        \* reports/test-report.html exists

runVars == <<worker, fileState, testStatus, reported, pc, thrown, results,
             localResults, tempResultsJson, htmlReport, reports, runEnded,
             appended, stepError, ended>>
selVars == <<selPc, section, visible, evaluated, checks, selResult>>
ddVars == <<ddOp, ddPc, optionText, displayed, displayed0, items, listOpen,
            attempt, triggerClicks, optionClicks, ddResult>>
rcVars == <<rcMax, rcAttempt, rcErrs, rcClicked, rcThrown, rcResult>>
capVars == <<capKind, capPc, capStep, capErr, capCall, capOps, capRet,
             capInclude, capCalls, capFiles, capLogged, capMethodThrown,
             capFailureCaptures, capRecords, capRethrown>>
rtVars == <<rtCi, rtOp, rtRuns, rtPc, rtRetryCount, rtErrs, rtReexec,
            rtStatus>>
repVars == <<repGen, repList, repOut>>
wtVars == <<wtPc, wtKind, wtOption, wtTimeout, wtElapsed, wtClock, wtLeft,
            wtRetry, wtStatus>>
swVars == <<swPc, swOn, swSeenOn, btnEnabled, retryCount, swClicks, swBusy,
            swLog, swResult>>
flVars == <<flOp, flPc, flText, flValue, flValue0, flCaret, flKeys, flResult>>
alVars == <<alOp, alAction, alPc, alPopup, alTrace, alHandlers, alCall,
            alDialog, alDialogCalls, alResult>>
bzVars == <<bzScenario, bzIdx, bzPc, bzBusy, bzElapsed, bzTimeouts, bzLog,
            bzResult>>
auVars == <<auOp, auSession, auPc, auUrl, auFault, auStored, auClock, auLog,
            auResult>>
srvVars == <<srvReq, srvReport>>
vars == <<runVars, selVars, ddVars, rcVars, capVars, rtVars, repVars, wtVars,
          swVars, flVars, alVars, bzVars, auVars, srvVars>>

\* what an action of one component leaves alone
notRun == <<selVars, ddVars, rcVars, capVars, rtVars, repVars, wtVars,
            swVars, flVars, alVars, bzVars, auVars, srvVars>>
notSel == <<runVars, ddVars, rcVars, capVars, rtVars, repVars, wtVars,
            swVars, flVars, alVars, bzVars, auVars, srvVars>>
notDd == <<runVars, selVars, rcVars, capVars, rtVars, repVars, wtVars,
           swVars, flVars, alVars, bzVars, auVars, srvVars>>
notRc == <<runVars, selVars, ddVars, capVars, rtVars, repVars, wtVars,
           swVars, flVars, alVars, bzVars, auVars, srvVars>>
notCap == <<runVars, selVars, ddVars, rcVars, rtVars, repVars, wtVars,
            swVars, flVars, alVars, bzVars, auVars, srvVars>>
notRt == <<runVars, selVars, ddVars, rcVars, capVars, repVars, wtVars,
           swVars, flVars, alVars, bzVars, auVars, srvVars>>
notRep == <<runVars, selVars, ddVars, rcVars, capVars, rtVars, wtVars,
            swVars, flVars, alVars, bzVars, auVars, srvVars>>
notWt == <<runVars, selVars, ddVars, rcVars, capVars, rtVars, repVars,
           swVars, flVars, alVars, bzVars, auVars, srvVars>>
notSw == <<runVars, selVars, ddVars, rcVars, capVars, rtVars, repVars,
           wtVars, flVars, alVars, bzVars, auVars, srvVars>>
notFl == <<runVars, selVars, ddVars, rcVars, capVars, rtVars, repVars,
           wtVars, swVars, alVars, bzVars, auVars, srvVars>>
notAl == <<runVars, selVars, ddVars, rcVars, capVars, rtVars, repVars,
           wtVars, swVars, flVars, bzVars, auVars, srvVars>>
notBz == <<runVars, selVars, ddVars, rcVars, capVars, rtVars, repVars,
           wtVars, swVars, flVars, alVars, auVars, srvVars>>
notAu == <<runVars, selVars, ddVars, rcVars, capVars, rtVars, repVars,
           wtVars, swVars, flVars, alVars, bzVars, srvVars>>
notSrv == <<runVars, selVars, ddVars, rcVars, capVars, rtVars, repVars,
            wtVars, swVars, flVars, alVars, bzVars, auVars>>

----------------------------------------------------------------------------
(* Text helpers.  Texts are sequences of tokens (characters or words), so   *)
(* that split, trim and includes are computed rather than assumed.         *)

\* Array.prototype.join for token sequences
RECURSIVE Join(_, _)
Join(parts, sep) ==
    IF parts = <<>> THEN <<>>
    ELSE IF Len(parts) = 1 THEN parts[1]
    ELSE parts[1] \o <<sep>> \o Join(Tail(parts), sep)

\* String.prototype.split(sep): the pieces between the separators
RECURSIVE Split(_, _)
Split(s, sep) ==
    IF \A i \in DOMAIN s : s[i] # sep THEN <<s>>
    ELSE LET k == CHOOSE i \in DOMAIN s :
                      s[i] = sep /\ \A j \in 1..(i - 1) : s[j] # sep
         IN <<SubSeq(s, 1, k - 1)>> \o Split(SubSeq(s, k + 1, Len(s)), sep)

\* String.prototype.trim: strip leading and trailing blanks
RECURSIVE TrimLeft(_)
TrimLeft(s) == IF s # <<>> /\ s[1] = " " THEN TrimLeft(Tail(s)) ELSE s
RECURSIVE TrimRight(_)
TrimRight(s) ==
    IF s # <<>> /\ s[Len(s)] = " " THEN TrimRight(SubSeq(s, 1, Len(s) - 1)) ELSE s
Trim(s) == TrimLeft(TrimRight(s))

\* String.prototype.includes: t occurs in s as a contiguous run
Includes(s, t) ==
    \E i \in 0..(Len(s) - Len(t)) : SubSeq(s, i + 1, i + Len(t)) = t

----------------------------------------------------------------------------
(* Runner configuration (defineConfig) and the spec files of the run.      *)

NoFile == "none"
NoError == [message |-> <<"<none>">>]

WorkersMutant == 1 + 1
\* workers: 1
Workers == 1

WorkerIds == 1..Workers

\* the spec files that push Scenario Records and persist them in afterAll
Files == {"suite", "all", "nav"}

\* with parallelism disabled the files run in alphabetical order:
\* all-test-suite.spec.ts, quotes-navigation.spec.ts, test-suite.spec.ts
FileOrder == <<"all", "nav", "suite">>

\* test.describe.configure({ mode: 'serial' })
Serial(f) == f \in {"suite", "all"}

\* errors a step can raise; err.message as a sequence of words
Errors ==
    { [message |-> <<"Timeout", "30000ms", "exceeded">>],
      [message |-> <<"TS002", "navigation", "failed">>] }

Title(id, name) == <<id, ":", " ", name>>
Rec(id, name, st) == [testId |-> <<id>>, testName |-> <<name>>, status |-> st]

\* A scenario: its title, the Pass records it pushes (one per stage, each
\* pushed when the steps before it completed), the Fail record(s) of its
\* catch block, and whether its pushes go to a function-local array.
\* failRec is the record pushed when err.message lacks 'TS002',
\* failRecTS002 the one pushed when it includes it.
Scenario(title, passes, failRec, failRecTS002, local) ==
    [title |-> title, passes |-> passes, failRec |-> failRec,
     failRecTS002 |-> failRecTS002, local |-> local]

Simple(title, id, name) ==
    Scenario(title, <<Rec(id, name, "Pass")>>, Rec(id, name, "Fail"),
             Rec(id, name, "Fail"), FALSE)

NameTS001 == "Verify Customer Search by Account Name"
NameTS002 == "Verify New Quote Creation Flow"
NameAcct == "Verify Account Form Fill and Proceed to Application"
NameMenu == "Customer Accounts Menu Redirect"
NameFilter == "Verify Customer Accounts Filter Search"
NameQNav == "Verify Quotes Navigation"
NameQFilter == "Verify Quotes Filter"

\* the TS002 test: Pass(TS002) after the product steps, Pass(TS007) after the
\* account-form steps, catch picks the id from the error message
QuoteFlow(local) ==
    Scenario(Title("TS002", NameTS002),
             <<Rec("TS002", NameTS002, "Pass"), Rec("TS007", NameAcct, "Pass")>>,
             Rec("TS007", NameAcct, "Fail"),
             Rec("TS002", NameTS002, "Fail"),
             local)

\* tests/test-suite.spec.ts, describe 'Customer Portal Test Suite'
SuiteScenarios ==
    << Simple(Title("TS001", NameTS001), "TS001", NameTS001),
       QuoteFlow(FALSE),
       Simple(Title("TS004", NameMenu), "TS003", NameMenu),
       Simple(Title("TS005", NameFilter), "TS004", NameFilter),
       Simple(Title("TS006", NameQNav), "TS005", NameQNav),
       Simple(Title("TS007", NameQFilter), "TS006", NameQFilter) >>

\* tests/all-test-suite.spec.ts: the same suite, TS002 with a local `results`
AllScenarios ==
    << Simple(Title("TS001", NameTS001), "TS001", NameTS001),
       QuoteFlow(TRUE),
       Simple(Title("TS004", NameMenu), "TS003", NameMenu),
       Simple(Title("TS005", NameFilter), "TS004", NameFilter),
       Simple(Title("TS006", NameQNav), "TS005", NameQNav),
       Simple(Title("TS007", NameQFilter), "TS006", NameQFilter) >>

\* tests/quotes-navigation.spec.ts
NavScenarios ==
    << Simple(<<"TS005", " ", "-", " ", NameQNav>>, "TS005", NameQNav) >>

Scenarios(f) ==
    CASE f = "suite" -> SuiteScenarios
      [] f = "all" -> AllScenarios
      [] f = "nav" -> NavScenarios

Idx(f) == DOMAIN Scenarios(f)

Terminal == {"passed", "failed", "timedOut", "interrupted", "skipped"}
Failing == {"failed", "timedOut", "interrupted"}

----------------------------------------------------------------------------
(* Result tracking inside a scenario.                                      *)

\* results.push(record): the array the scenario's `results` identifier denotes
Push(f, i, rec) ==
    /\ IF Scenarios(f)[i].local
       THEN /\ localResults' = Append(localResults, rec)
            /\ UNCHANGED results
       ELSE /\ results' = [results EXCEPT ![f] = Append(@, rec)]
            /\ UNCHANGED localResults
    /\ appended' = [appended EXCEPT ![f][i] = Append(@, rec)]

\* the record the catch block pushes for err
FailRecord(f, i, err) ==
    IF Includes(err.message, <<"TS002">>)
    THEN Scenarios(f)[i].failRecTS002
    ELSE Scenarios(f)[i].failRec

RethrowSwallowed(err) == NoError
\* throw err;  at the end of the catch block
Rethrow(err) == err

----------------------------------------------------------------------------
(* The runner: one worker takes the spec files one at a time and runs the  *)
(* tests of a file in declaration order.                                   *)

Running(f) == {i \in Idx(f) : testStatus[f][i] = "running"}
Unreported(f) == {i \in Idx(f) : testStatus[f][i] \in Terminal /\ ~reported[f][i]}
Pending(f) == {i \in Idx(f) : testStatus[f][i] = "pending"}
NextPending(f) == CHOOSE i \in Pending(f) : \A j \in Pending(f) : i <= j

\* a worker is free and takes the next spec file that has not run yet
AssignFile(w, f) ==
    /\ worker[w] = NoFile
    /\ fileState[f] = "pending"
    /\ \A k \in DOMAIN FileOrder :
           FileOrder[k] = f => \A j \in 1..(k - 1) : fileState[FileOrder[j]] # "pending"
    /\ ~runEnded
    /\ worker' = [worker EXCEPT ![w] = f]
    /\ fileState' = [fileState EXCEPT ![f] = "running"]
    /\ UNCHANGED <<testStatus, reported, pc, thrown, results, localResults,
                   tempResultsJson, htmlReport, reports, runEnded, appended,
                   stepError, ended>>
    /\ UNCHANGED notRun

\* the worker can start the next test of its file
CanStart(f) ==
    /\ fileState[f] = "running"
    /\ Running(f) = {}
    /\ Unreported(f) = {}
    /\ Pending(f) # {}

\* serial mode: after a failure the remaining tests of the block are skipped
MustSkip(f) == Serial(f) /\ \E j \in Idx(f) : testStatus[f][j] \in Failing

\* the test function is entered (const start = Date.now(); try { ...)
StartScenario(f) ==
    /\ CanStart(f)
    /\ ~MustSkip(f)
    /\ LET i == NextPending(f) IN
        /\ testStatus' = [testStatus EXCEPT ![f][i] = "running"]
        /\ pc' = [pc EXCEPT ![f] = 1]
        /\ localResults' = IF Scenarios(f)[i].local THEN <<>> ELSE localResults
    /\ UNCHANGED <<worker, fileState, reported, thrown, results,
                   tempResultsJson, htmlReport, reports, runEnded, appended,
                   stepError, ended>>
    /\ UNCHANGED notRun

\* serial mode skips the test without entering it
SkipScenario(f) ==
    /\ CanStart(f)
    /\ MustSkip(f)
    /\ LET i == NextPending(f) IN
        /\ testStatus' = [testStatus EXCEPT ![f][i] = "skipped"]
        /\ ended' = Append(ended, <<f, i>>)
    /\ UNCHANGED <<worker, fileState, reported, pc, thrown, results,
                   localResults, tempResultsJson, htmlReport, reports,
                   runEnded, appended, stepError>>
    /\ UNCHANGED notRun

\* the steps of the current stage complete; the Pass record that follows them
\* is pushed; after the last stage the test function returns
StageOk(f) ==
    \E i \in Running(f) :
        LET sc == Scenarios(f)[i] IN
        /\ Push(f, i, sc.passes[pc[f]])
        /\ IF pc[f] = Len(sc.passes)
           THEN /\ testStatus' = [testStatus EXCEPT ![f][i] = "passed"]
                /\ ended' = Append(ended, <<f, i>>)
                /\ UNCHANGED pc
           ELSE /\ pc' = [pc EXCEPT ![f] = @ + 1]
                /\ UNCHANGED <<testStatus, ended>>
        /\ UNCHANGED <<worker, fileState, reported, thrown, tempResultsJson,
                       htmlReport, reports, runEnded, stepError>>
        /\ UNCHANGED notRun

\* a step of the current stage throws err: the catch block pushes the Fail
\* record and re-throws; the runner sees the test function reject
StageFail(f, err) ==
    \E i \in Running(f) :
        /\ Push(f, i, FailRecord(f, i, err))
        /\ stepError' = [stepError EXCEPT ![f][i] = err]
        /\ thrown' = [thrown EXCEPT ![f][i] = Rethrow(err)]
        /\ testStatus' = [testStatus EXCEPT ![f][i] =
                             IF Rethrow(err) = NoError THEN "passed" ELSE "failed"]
        /\ ended' = Append(ended, <<f, i>>)
        /\ UNCHANGED <<worker, fileState, reported, pc, tempResultsJson,
                       htmlReport, reports, runEnded>>
        /\ UNCHANGED notRun

\* the runner ends the running test itself: the test timeout (timeout: 90000,
\* test.setTimeout) expires or the run is interrupted.  Whether the aborted
\* test function still reaches its catch block and pushes is not determined
\* by the spec file.
Abort(f, st, pushes) ==
    \E i \in Running(f) :
        /\ IF pushes
           THEN Push(f, i, Scenarios(f)[i].failRec)
           ELSE UNCHANGED <<results, localResults, appended>>
        /\ testStatus' = [testStatus EXCEPT ![f][i] = st]
        /\ ended' = Append(ended, <<f, i>>)
        /\ UNCHANGED <<worker, fileState, reported, pc, thrown, tempResultsJson,
                       htmlReport, reports, runEnded, stepError>>
        /\ UNCHANGED notRun

----------------------------------------------------------------------------
(* CustomHtmlReporter and the afterAll persistence of utils/reporter.      *)

\* const testId = (maybeId || '').trim() || test.title
ReportTestId(title) ==
    LET id == Trim(Split(title, ":")[1])
    IN IF id # <<>> THEN id ELSE title

\* const testName = rest.join(':').trim() || test.title
ReportTestName(title) ==
    LET nm == Trim(Join(Tail(Split(title, ":")), ":"))
    IN IF nm # <<>> THEN nm ELSE title

MapStatusMutant(st) == IF st = "timedOut" THEN "failed" ELSE st
MapStatusKeepsTimedOut(st) == IF st = "interrupted" THEN "failed" ELSE st
\* timedOut and interrupted are reported as failed
MapStatus(st) == IF st \in {"timedOut", "interrupted"} THEN "failed" ELSE st

RECURSIVE DropId(_, _)
DropId(list, id) ==
    IF list = <<>> THEN <<>>
    ELSE IF list[1].testId = id THEN DropId(Tail(list), id)
    ELSE <<list[1]>> \o DropId(Tail(list), id)
ReportsPushMutant(list, rec) == Append(DropId(list, rec.testId), rec)
\* this.reports.push({...})
ReportsPush(list, rec) == Append(list, rec)

\* list.filter(r => r.status === st).length
Count(list, st) == Cardinality({k \in DOMAIN list : list[k].status = st})

\* CustomHtmlReporter.onTestEnd
OnTestEnd(f) ==
    /\ Unreported(f) # {}
    /\ LET i == CHOOSE j \in Unreported(f) : TRUE
           title == Scenarios(f)[i].title
       IN /\ reports' = ReportsPush(reports,
                            [testId |-> ReportTestId(title),
                             testName |-> ReportTestName(title),
                             status |-> MapStatus(testStatus[f][i])])
          /\ reported' = [reported EXCEPT ![f][i] = TRUE]
    /\ UNCHANGED <<worker, fileState, testStatus, pc, thrown, results,
                   localResults, tempResultsJson, htmlReport, runEnded,
                   appended, stepError, ended>>
    /\ UNCHANGED notRun

\* generateHtmlReport(results): total, passed, failed = total - passed,
\* pass rate = total > 0 ? Math.round((passed/total) * 100) : 0
HtmlSummary(list) ==
    LET total == Len(list)
        passed == Count(list, "Pass")
    IN [total |-> total, passed |-> passed, failed |-> total - passed,
        passRate |-> IF total > 0 THEN (200 * passed + total) \div (2 * total)
                     ELSE 0]

\* test.afterAll: saveResultsToJson(results); generateHtmlReport(results)
AfterAll(f) ==
    /\ fileState[f] = "running"
    /\ Pending(f) = {} /\ Running(f) = {} /\ Unreported(f) = {}
    /\ tempResultsJson' = [exists |-> TRUE, by |-> f, content |-> results[f]]
    /\ htmlReport' = [exists |-> TRUE, by |-> f, summary |-> HtmlSummary(results[f])]
    /\ fileState' = [fileState EXCEPT ![f] = "done"]
    /\ worker' = [w \in WorkerIds |-> IF worker[w] = f THEN NoFile ELSE worker[w]]
    /\ UNCHANGED <<testStatus, reported, pc, thrown, results, localResults,
                   reports, runEnded, appended, stepError, ended>>
    /\ UNCHANGED notRun

\* 0 / 0 is NaN and renders as 'NaN'; it is -1 here
ReporterSummaryUnguarded(list) ==
    LET total == Len(list)
        passed == Count(list, "passed")
    IN [total |-> total, passed |-> passed,
        failed |-> Count(list, "failed"),
        skipped |-> Count(list, "skipped"),
        passRate |-> IF total = 0 THEN -1
                     ELSE (2000 * passed + total) \div (2 * total)]

\* onEnd: total, passed, failed, skipped and
\* passRate = total ? ((passed / total) * 100).toFixed(1) : '0.0'  (in tenths)
ReporterSummary(list) ==
    LET total == Len(list)
        passed == Count(list, "passed")
    IN [total |-> total, passed |-> passed,
        failed |-> Count(list, "failed"),
        skipped |-> Count(list, "skipped"),
        passRate |-> IF total # 0 THEN (2000 * passed + total) \div (2 * total)
                     ELSE 0]

\* CustomHtmlReporter.onEnd: write temp-results.json, then test-report.html
OnEnd ==
    /\ ~runEnded
    /\ \A f \in Files : fileState[f] = "done"
    /\ tempResultsJson' = [exists |-> TRUE, by |-> "reporter", content |-> reports]
    /\ htmlReport' = [exists |-> TRUE, by |-> "reporter",
                      summary |-> ReporterSummary(reports)]
    /\ runEnded' = TRUE
    /\ UNCHANGED <<worker, fileState, testStatus, reported, pc, thrown, results,
                   localResults, reports, appended, stepError, ended>>
    /\ UNCHANGED notRun

----------------------------------------------------------------------------
(* The run.                                                                *)

NoContent == [exists |-> FALSE, by |-> "nobody", content |-> <<>>]

\* no summary rendered yet
NoSummary == [total |-> -1]

InitRun ==
    /\ worker = [w \in WorkerIds |-> NoFile]
    /\ fileState = [f \in Files |-> "pending"]
    /\ testStatus = [f \in Files |-> [i \in Idx(f) |-> "pending"]]
    /\ reported = [f \in Files |-> [i \in Idx(f) |-> FALSE]]
    /\ pc = [f \in Files |-> 0]
    /\ thrown = [f \in Files |-> [i \in Idx(f) |-> NoError]]
    /\ results = [f \in Files |-> <<>>]
    /\ localResults = <<>>
    /\ tempResultsJson = NoContent
    /\ htmlReport = NoContent
    /\ reports = <<>>
    /\ runEnded = FALSE
    /\ appended = [f \in Files |-> [i \in Idx(f) |-> <<>>]]
    /\ stepError = [f \in Files |-> [i \in Idx(f) |-> NoError]]
    /\ ended = <<>>

\* no selectDeductibleInSection call in progress
IdleSel ==
    /\ selPc = 0
    /\ section = 0
    /\ visible = <<>>
    /\ evaluated = <<>>
    /\ checks = <<>>
    /\ selResult = "idle"

\* no dropdown selection in progress
IdleDd ==
    /\ ddOp = "none"
    /\ ddPc = 0
    /\ optionText = <<>>
    /\ displayed = <<>>
    /\ displayed0 = <<>>
    /\ items = <<>>
    /\ listOpen = FALSE
    /\ attempt = 0
    /\ triggerClicks = 0
    /\ optionClicks = 0
    /\ ddResult = "idle"

\* retryClick not called
IdleRc ==
    /\ rcMax = 0
    /\ rcAttempt = 0
    /\ rcErrs = <<>>
    /\ rcClicked = FALSE
    /\ rcThrown = NoError
    /\ rcResult = "idle"

\* no scenario of the capture model in progress
IdleCap ==
    /\ capKind = "none"
    /\ capPc = "idle"
    /\ capStep = 0
    /\ capErr = NoError
    /\ capCall = "none"
    /\ capOps = <<>>
    /\ capRet = "idle"
    /\ capInclude = FALSE
    /\ capCalls = 0
    /\ capFiles = {}
    /\ capLogged = <<>>
    /\ capMethodThrown = NoError
    /\ capFailureCaptures = 0
    /\ capRecords = <<>>
    /\ capRethrown = NoError

\* no scenario of the retry model in progress
IdleRt ==
    /\ rtCi = FALSE
    /\ rtOp = "none"
    /\ rtRuns = 0
    /\ rtPc = "idle"
    /\ rtRetryCount = 0
    /\ rtErrs = <<>>
    /\ rtReexec = 0
    /\ rtStatus = "idle"

\* no report generation of the summary model in progress
IdleRep ==
    /\ repGen = "none"
    /\ repList = <<>>
    /\ repOut = NoSummary

\* no scenario of the wait model in progress
IdleWt ==
    /\ wtPc = "idle"
    /\ wtKind = "none"
    /\ wtOption = [given |-> FALSE, ms |-> 0]
    /\ wtTimeout = 0
    /\ wtElapsed = 0
    /\ wtClock = 0
    /\ wtLeft = 0
    /\ wtRetry = 0
    /\ wtStatus = "idle"

\* no switch step in progress
IdleSw ==
    /\ swPc = "idle"
    /\ swOn = FALSE
    /\ swSeenOn = FALSE
    /\ btnEnabled = FALSE
    /\ retryCount = 0
    /\ swClicks = 0
    /\ swBusy = FALSE
    /\ swLog = <<>>
    /\ swResult = "idle"

\* no fill in progress
IdleFl ==
    /\ flOp = "none"
    /\ flPc = "idle"
    /\ flText = <<>>
    /\ flValue = <<>>
    /\ flValue0 = <<>>
    /\ flCaret = 0
    /\ flKeys = <<>>
    /\ flResult = "idle"

\* no modal confirmation in progress
IdleAl ==
    /\ alOp = "none"
    /\ alAction = "accept"
    /\ alPc = "idle"
    /\ alPopup = "absent"
    /\ alTrace = <<>>
    /\ alHandlers = <<>>
    /\ alCall = 0
    /\ alDialog = "none"
    /\ alDialogCalls = 0
    /\ alResult = "idle"

\* no busy-flag wait in progress
IdleBz ==
    /\ bzScenario = "none"
    /\ bzIdx = 0
    /\ bzPc = "idle"
    /\ bzBusy = FALSE
    /\ bzElapsed = 0
    /\ bzTimeouts = 0
    /\ bzLog = <<>>
    /\ bzResult = "idle"

\* no authentication in progress
IdleAu ==
    /\ auOp = "none"
    /\ auSession = "anonymous"
    /\ auPc = "idle"
    /\ auUrl = "blank"
    /\ auFault = FALSE
    /\ auStored = 0
    /\ auClock = 0
    /\ auLog = <<>>
    /\ auResult = "idle"

\* the report server has received nothing
IdleSrv ==
    /\ srvReq = <<>>
    /\ srvReport = FALSE

\* no helper or page-object operation in progress
IdleOps == IdleSel /\ IdleDd /\ IdleRc /\ IdleCap /\ IdleRt /\ IdleRep
    /\ IdleWt /\ IdleSw /\ IdleFl /\ IdleAl /\ IdleBz /\ IdleAu
    /\ IdleSrv

Init == InitRun /\ IdleOps

Next ==
    \/ \E w \in WorkerIds, f \in Files : AssignFile(w, f)
    \/ \E f \in Files : StartScenario(f)
    \/ \E f \in Files : SkipScenario(f)
    \/ \E f \in Files : StageOk(f)
    \/ \E f \in Files, err \in Errors : StageFail(f, err)
    \/ \E f \in Files, st \in {"timedOut", "interrupted"}, pushes \in BOOLEAN :
           Abort(f, st, pushes)
    \/ \E f \in Files : OnTestEnd(f)
    \/ \E f \in Files : AfterAll(f)
    \/ OnEnd

Spec == Init /\ [][Next]_vars

----------------------------------------------------------------------------
(* Properties of the run (specification Spec).                             *)

RunningNow == {<<f, i>> \in UNION {{f} \X Idx(f) : f \in Files} :
                   testStatus[f][i] = "running"}

IsPrefix(a, b) == Len(a) <= Len(b) /\ SubSeq(b, 1, Len(a)) = a

HasPass(f, i) == \E k \in DOMAIN appended[f][i] : appended[f][i][k].status = "Pass"

\* the scenario identifier a title starts with (TS001, TS002, ...)
TitleId(title) == <<Head(title)>>

\* the records the scenarios 1..n of f pushed to the module-level array
RECURSIVE SharedPushes(_, _)
SharedPushes(f, n) ==
    IF n = 0 THEN <<>>
    ELSE SharedPushes(f, n - 1)
         \o (IF Scenarios(f)[n].local THEN <<>> ELSE appended[f][n])

\* C1: scenarios run strictly one after another in declared order: at most
\* one scenario is running at any time, and a scenario has left "pending"
\* only when every scenario declared before it (earlier in its file, or in a
\* file that runs earlier) has reached a terminal state.
C1_Sequential ==
    /\ Cardinality(RunningNow) <= 1
    /\ \A f \in Files : \A i \in Idx(f) :
           testStatus[f][i] # "pending" =>
               \A j \in 1..(i - 1) : testStatus[f][j] \in Terminal
    /\ \A k \in DOMAIN FileOrder : \A j \in 1..(k - 1) :
           (\E i \in Idx(FileOrder[k]) : testStatus[FileOrder[k]][i] # "pending")
               => \A i \in Idx(FileOrder[j]) : testStatus[FileOrder[j]][i] \in Terminal

\* a later scenario is running after its predecessor ended
C1_Witness ==
    \E f \in Files : \E i \in Idx(f) :
        i > 1 /\ testStatus[f][i] = "running" /\ testStatus[f][i - 1] = "passed"

\* C2: when a step of a result-tracking scenario throws, the catch block has
\* appended a Fail record as the execution's last record and the same error
\* left the test function, so the runner marks the test failed.
C2_FailureReachesRunner ==
    \A f \in Files : \A i \in Idx(f) :
        stepError[f][i] # NoError =>
            /\ appended[f][i] # <<>>
            /\ appended[f][i][Len(appended[f][i])].status = "Fail"
            /\ thrown[f][i] = stepError[f][i]
            /\ testStatus[f][i] = "failed"

\* a step failed and the reporter was told about the test
C2_Witness ==
    \E f \in Files : \E i \in Idx(f) :
        stepError[f][i] # NoError /\ reported[f][i]

\* C3: every scenario execution appends exactly one record: never more than
\* one, and exactly one once the test function has returned or thrown.
C3_ExactlyOneRecord ==
    \A f \in Files : \A i \in Idx(f) :
        /\ Len(appended[f][i]) <= 1
        /\ testStatus[f][i] \in {"passed", "failed"} => Len(appended[f][i]) = 1

\* C4: a Pass record is appended only when all steps of the scenario have
\* completed without error, and an execution that appended a Pass record
\* does not end in failure.
C4_PassOnlyAtEnd ==
    \A f \in Files : \A i \in Idx(f) :
        HasPass(f, i) => testStatus[f][i] = "passed"

\* C5: the reporter's summary of the test-end events received so far has
\* total = passed + failed + skipped, every recorded status is passed,
\* failed or skipped, and the summary written by onEnd is that summary.
C5_TotalsAddUp ==
    LET s == ReporterSummary(reports) IN
    /\ s.total = s.passed + s.failed + s.skipped
    /\ \A k \in DOMAIN reports : reports[k].status \in {"passed", "failed", "skipped"}
    /\ runEnded => htmlReport.summary = s

\* the run ended with passed, skipped and interrupted or timed-out tests
C5_Witness ==
    /\ runEnded
    /\ \E f \in Files : \E i \in Idx(f) : testStatus[f][i] = "interrupted"
    /\ \E f \in Files : \E i \in Idx(f) : testStatus[f][i] = "timedOut"
    /\ \E f \in Files : \E i \in Idx(f) : testStatus[f][i] = "skipped"
    /\ \E f \in Files : \E i \in Idx(f) : testStatus[f][i] = "passed"

\* C6: when the run has ended, reports/temp-results.json holds a record for
\* every scenario that was executed, and every record a scenario appended is
\* in the shared results array that its file persists.
C6_EveryScenarioPersisted ==
    runEnded =>
        /\ \A f \in Files : \A i \in Idx(f) :
               testStatus[f][i] \in Terminal \ {"skipped"} =>
                   \E k \in DOMAIN tempResultsJson.content :
                       tempResultsJson.content[k].testId
                           = ReportTestId(Scenarios(f)[i].title)
        /\ \A f \in Files : \A i \in Idx(f) : \A k \in DOMAIN appended[f][i] :
               \E m \in DOMAIN results[f] : results[f][m] = appended[f][i][k]

\* C7: records are only ever appended (the lists grow at the end and keep
\* what they hold), in completion order: the reporter's list follows the
\* order in which the scenarios ended, and a file's results array is what its
\* scenarios pushed, in order.
C7_AppendOnlyInOrder ==
    /\ [][/\ IsPrefix(reports, reports')
          /\ \A f \in Files : IsPrefix(results[f], results'[f])]_vars
    /\ [](/\ Len(reports) <= Len(ended)
          /\ \A k \in DOMAIN reports :
                 reports[k].testId
                     = ReportTestId(Scenarios(ended[k][1])[ended[k][2]].title)
          /\ \A f \in Files : results[f] = SharedPushes(f, Len(Scenarios(f))))

\* the same identifier completed twice and both records are held
C7_Witness ==
    \E k, m \in DOMAIN reports :
        k < m /\ reports[k].testId = reports[m].testId

\* C8: every record a scenario appends carries the identifier of the
\* scenario's title, on the Pass and on the Fail path.
C8_RecordCarriesTitleId ==
    \A f \in Files : \A i \in Idx(f) : \A k \in DOMAIN appended[f][i] :
        appended[f][i][k].testId = TitleId(Scenarios(f)[i].title)

\* C17: a scenario the runner ended as timedOut or interrupted is recorded by
\* the reporter with status failed, and when the run has ended every
\* scenario that ended has its record in the persisted report.
C17_AbortedRecordedFailed ==
    /\ Len(reports) <= Len(ended)
    /\ \A k \in DOMAIN reports :
           testStatus[ended[k][1]][ended[k][2]] \in {"timedOut", "interrupted"}
               => reports[k].status = "failed"
    /\ runEnded =>
           /\ Len(reports) = Len(ended)
           /\ tempResultsJson.content = reports

\* the run ended and the persisted report holds a timed-out scenario as failed
C17_Witness ==
    /\ runEnded
    /\ \E k \in DOMAIN tempResultsJson.content :
           /\ testStatus[ended[k][1]][ended[k][2]] = "timedOut"
           /\ tempResultsJson.content[k].status = "failed"

\* C19: the report files are persisted once per run: a step writes
\* reports/temp-results.json or reports/test-report.html only if neither has
\* been written before in the run and every scenario has completed.
C19_PersistedOnce ==
    [][(tempResultsJson' # tempResultsJson \/ htmlReport' # htmlReport) =>
           /\ ~tempResultsJson.exists
           /\ ~htmlReport.exists
           /\ \A f \in Files : \A i \in Idx(f) : testStatus[f][i] \in Terminal]_vars

----------------------------------------------------------------------------
(* TestHelpers.selectDeductibleInSection: the selector strategy chain.     *)
(* `section` holds the locator of one strategy; each isVisible() check     *)
(* reads the page as it is at that moment.                                 *)

\* Strategy 1 .. Strategy 5
NumStrategies == 5
Strategies == 1..NumStrategies

InitSel ==
    /\ selPc = 1
    /\ section = 1                       \* Strategy 1 locator is built first
    /\ visible \in [Strategies -> BOOLEAN]
    /\ evaluated = <<1>>
    /\ checks = <<>>
    /\ selResult = "running"

\* if (!(await section.isVisible(...).catch(() => false))) { section = <next strategy> }
SelCheck ==
    /\ selResult = "running"
    /\ selPc \in 1..(NumStrategies - 1)
    /\ checks' = Append(checks, <<section, visible[section]>>)
    /\ IF ~visible[section]
       THEN /\ section' = selPc + 1
            /\ evaluated' = Append(evaluated, selPc + 1)
       ELSE UNCHANGED <<section, evaluated>>
    /\ selPc' = selPc + 1
    /\ UNCHANGED <<visible, selResult>>
    /\ UNCHANGED notSel

\* Final check: const isVisible = await section.isVisible(...); throw if not
SelFinal ==
    /\ selResult = "running"
    /\ selPc = NumStrategies
    /\ checks' = Append(checks, <<section, visible[section]>>)
    /\ selResult' = IF visible[section] THEN "found" ELSE "notFound"
    /\ selPc' = selPc + 1
    /\ UNCHANGED <<section, visible, evaluated>>
    /\ UNCHANGED notSel

\* the page re-renders between two checks: an element appears or disappears
VisibilityChange(k) ==
    /\ selResult = "running"
    /\ visible' = [visible EXCEPT ![k] = ~@]
    /\ UNCHANGED <<selPc, section, evaluated, checks, selResult>>
    /\ UNCHANGED notSel

NextSel ==
    \/ SelCheck
    \/ SelFinal
    \/ \E k \in Strategies : VisibilityChange(k)

\* one selectDeductibleInSection call, no run and no dropdown selection going on
InitSelCall == InitRun /\ InitSel /\ IdleDd /\ IdleRc /\ IdleCap /\ IdleRt
    /\ IdleRep /\ IdleWt /\ IdleSw /\ IdleFl /\ IdleAl /\ IdleBz /\ IdleAu
    /\ IdleSrv

SpecSel == InitSelCall /\ [][NextSel]_vars

----------------------------------------------------------------------------
(* Properties of the strategy chain (specification SpecSel).               *)

\* the checks of strategy k that were logged
ChecksOf(k) == {c \in DOMAIN checks : checks[c][1] = k}

\* C9: the strategies are tried strictly in order: a strategy is evaluated
\* only after every strategy before it was evaluated and failed to yield a
\* visible match, and the section used is the match of the first strategy
\* that yielded a visible one; no strategy is skipped, whatever the page does
\* between two checks.
C9_InOrderNoSkip ==
    /\ \A n \in DOMAIN evaluated : evaluated[n] = n
    /\ \A n \in DOMAIN evaluated : \A j \in 1..(evaluated[n] - 1) :
           /\ ChecksOf(j) # {}
           /\ \A c \in ChecksOf(j) : ~checks[c][2]
    /\ selResult = "found" =>
           \A c \in DOMAIN checks :
               (checks[c][2] /\ \A d \in 1..(c - 1) : ~checks[d][2])
                   => section = checks[c][1]

----------------------------------------------------------------------------
(* Kendo dropdown selection: TestHelpers.selectFromKendoDropdown, the       *)
(* inline Limit selection of TS002 in tests/test-suite.spec.ts and the     *)
(* keyboard selection of selectDeductibleBySection in the same test.       *)
(* Texts are sequences of characters.                                      *)

T100 == <<"1", "0", "0">>
T1000 == <<"1", "0", "0", "0">>
T25k == <<"2", "5", ",", "0", "0", "0">>
T125k == <<"1", "2", "5", ",", "0", "0", "0">>
TPad25k == <<" ", "2", "5", ",", "0", "0", "0", " ">>

\* option texts the callers ask for (TEST_DATA.limits)
OptionTexts == {T100, T25k}
\* what the dropdown can show when the selection starts
DisplayTexts == {<<>>, T100, T1000, T25k, T125k, TPad25k}
\* option lists the widget can hold
ItemLists == {<<T100, T25k>>, <<T1000, T125k>>, <<T125k, T25k, T100>>, <<T125k>>}

\* maxRetries: number = 3
MaxRetries == 3
\* for (let i = 0; i < 3; i++)
InlineRetries == 3

\* indexes of the .k-item elements matched by { hasText: text }
Matches(text) == {k \in DOMAIN items : Includes(items[k], text)}
FirstMatch(text) == CHOOSE k \in Matches(text) : \A j \in Matches(text) : k <= j

InitDd ==
    /\ ddOp \in {"helper", "inline", "keyboard"}
    /\ optionText \in CASE ddOp = "inline" -> {T25k}
                      [] ddOp = "keyboard" -> {T100}
                      [] OTHER -> OptionTexts
    /\ displayed \in DisplayTexts
    /\ displayed0 = displayed
    /\ items \in ItemLists
    /\ listOpen = FALSE
    /\ attempt = 0
    /\ triggerClicks = 0
    /\ optionClicks = 0
    /\ ddPc = "expectVisible"
    /\ ddResult = "running"

\* await expect(dropdown).toBeVisible({ timeout }): passes or throws
DdExpectVisible(ok) ==
    /\ ddResult = "running"
    /\ ddPc = "expectVisible"
    /\ IF ok
       THEN /\ ddPc' = IF ddOp = "helper" THEN "readValue" ELSE "firstClick"
            /\ UNCHANGED ddResult
       ELSE /\ ddPc' = "notVisible"
            /\ ddResult' = "error"
    /\ UNCHANGED <<ddOp, optionText, displayed, displayed0, items, listOpen,
                   attempt, triggerClicks, optionClicks>>
    /\ UNCHANGED notDd

AlreadySelectedExact(current, text) == current # <<>> /\ Trim(current) = text
AlreadySelectedNever(current, text) == FALSE
\* if (currentValue && currentValue.trim().includes(optionText))
AlreadySelected(current, text) == current # <<>> /\ Includes(Trim(current), text)

\* selectFromKendoDropdown: the already-selected check
DdReadValue ==
    /\ ddResult = "running"
    /\ ddOp = "helper"
    /\ ddPc = "readValue"
    /\ IF AlreadySelected(displayed, optionText)
       THEN /\ ddPc' = "skipped"
            /\ ddResult' = "ok"
       ELSE /\ ddPc' = "loop"
            /\ UNCHANGED ddResult
    /\ UNCHANGED <<ddOp, optionText, displayed, displayed0, items, listOpen,
                   attempt, triggerClicks, optionClicks>>
    /\ UNCHANGED notDd

\* selectFromKendoDropdown: one iteration of the retry loop.  The click on
\* the trigger leaves the list open or closed (opens); an open list is
\* searched for the option, which is clicked when it is the one visible match
\* (a locator matching several items fails isVisible() in strict mode).
DdHelperAttempt(opens) ==
    /\ ddResult = "running"
    /\ ddOp = "helper"
    /\ ddPc = "loop"
    /\ attempt < MaxRetries
    /\ triggerClicks' = triggerClicks + 1
    /\ IF opens /\ Cardinality(Matches(optionText)) = 1
       THEN /\ optionClicks' = optionClicks + 1
            /\ displayed' = items[FirstMatch(optionText)]
            /\ listOpen' = FALSE
            /\ ddResult' = "ok"
            /\ ddPc' = "selected"
            /\ UNCHANGED attempt
       ELSE IF opens /\ Cardinality(Matches(optionText)) > 1
       THEN /\ listOpen' = TRUE
            /\ ddResult' = "error"
            /\ ddPc' = "strict"
            /\ UNCHANGED <<optionClicks, displayed, attempt>>
       ELSE /\ listOpen' = opens
            /\ attempt' = attempt + 1
            /\ UNCHANGED <<optionClicks, displayed, ddResult, ddPc>>
    /\ UNCHANGED <<ddOp, optionText, displayed0, items>>
    /\ UNCHANGED notDd

\* throw new Error(`Failed to select option ... after ${maxRetries} attempts`)
DdHelperGiveUp ==
    /\ ddResult = "running"
    /\ ddOp = "helper"
    /\ ddPc = "loop"
    /\ attempt >= MaxRetries
    /\ ddResult' = "error"
    /\ ddPc' = "gaveUp"
    /\ UNCHANGED <<ddOp, optionText, displayed, displayed0, items, listOpen,
                   attempt, triggerClicks, optionClicks>>
    /\ UNCHANGED notDd

\* inline: await limitDropdownWrap.click()
\* keyboard: await deductibleDropdown.click()
DdInlineFirstClick(opens) ==
    /\ ddResult = "running"
    /\ ddOp \in {"inline", "keyboard"}
    /\ ddPc = "firstClick"
    /\ triggerClicks' = triggerClicks + 1
    /\ listOpen' = opens
    /\ ddPc' = "retry"
    /\ UNCHANGED <<ddOp, optionText, displayed, displayed0, items, attempt,
                   optionClicks, ddResult>>
    /\ UNCHANGED notDd

\* inline and keyboard: one iteration of
\* `for (i < 3) { if visible break; click(force) }`, and the throw after the loop
DdInlineRetry(opens) ==
    /\ ddResult = "running"
    /\ ddOp \in {"inline", "keyboard"}
    /\ ddPc = "retry"
    /\ IF attempt < InlineRetries
       THEN IF listOpen
            THEN /\ ddPc' = IF ddOp = "inline" THEN "option" ELSE "keys"
                 /\ UNCHANGED <<triggerClicks, listOpen, attempt, ddResult>>
            ELSE /\ triggerClicks' = triggerClicks + 1
                 /\ listOpen' = opens
                 /\ attempt' = attempt + 1
                 /\ UNCHANGED <<ddPc, ddResult>>
       ELSE /\ ddResult' = "error"
            /\ ddPc' = "listNotShown"
            /\ UNCHANGED <<triggerClicks, listOpen, attempt>>
    /\ UNCHANGED <<ddOp, optionText, displayed, displayed0, items, optionClicks>>
    /\ UNCHANGED notDd

\* inline: locate the first item with the text, expect it visible, click it
\* unless the displayed value already is the text
DdInlineOption ==
    /\ ddResult = "running"
    /\ ddOp = "inline"
    /\ ddPc = "option"
    /\ IF Matches(optionText) = {}
       THEN /\ ddResult' = "error"
            /\ ddPc' = "optionNotShown"
            /\ UNCHANGED <<optionClicks, displayed, listOpen>>
       ELSE /\ ddResult' = "ok"
            /\ IF Trim(displayed) # optionText
               THEN /\ optionClicks' = optionClicks + 1
                    /\ displayed' = items[FirstMatch(optionText)]
                    /\ listOpen' = FALSE
                    /\ ddPc' = "selected"
               ELSE /\ ddPc' = "skipped"
                    /\ UNCHANGED <<optionClicks, displayed, listOpen>>
    /\ UNCHANGED <<ddOp, optionText, displayed0, items, attempt, triggerClicks>>
    /\ UNCHANGED notDd

\* index of the first item whose trimmed text is text, 0 when there is none
\* (foundIndex + 1)
FoundIndex(text) ==
    IF \E k \in DOMAIN items : Trim(items[k]) = text
    THEN CHOOSE k \in DOMAIN items :
             /\ Trim(items[k]) = text
             /\ \A j \in 1..(k - 1) : Trim(items[j]) # text
    ELSE 0

\* item focused after n ArrowDown presses in a list opened with item `start`
\* focused (0: none)
ArrowDown(start, n) == IF start + n <= Len(items) THEN start + n ELSE Len(items)

\* keyboard: find '100' among the items, press ArrowDown foundIndex + 1 times
\* and Enter; when it is not among them press ArrowDown once and Enter.
\* The list opens with no item focused or with the displayed one focused.
DdKeyboardSelect(start) ==
    /\ ddResult = "running"
    /\ ddOp = "keyboard"
    /\ ddPc = "keys"
    /\ start = 0 \/ (start \in DOMAIN items /\ Trim(items[start]) = Trim(displayed))
    /\ LET presses == IF FoundIndex(optionText) > 0 THEN FoundIndex(optionText) ELSE 1
       IN displayed' = items[ArrowDown(start, presses)]
    /\ listOpen' = FALSE
    /\ ddResult' = "ok"
    /\ ddPc' = "keyed"
    /\ UNCHANGED <<ddOp, optionText, displayed0, items, attempt, triggerClicks,
                   optionClicks>>
    /\ UNCHANGED notDd

NextDd ==
    \/ \E ok \in BOOLEAN : DdExpectVisible(ok)
    \/ DdReadValue
    \/ \E opens \in BOOLEAN : DdHelperAttempt(opens)
    \/ DdHelperGiveUp
    \/ \E opens \in BOOLEAN : DdInlineFirstClick(opens)
    \/ \E opens \in BOOLEAN : DdInlineRetry(opens)
    \/ DdInlineOption
    \/ \E start \in 0..Len(items) : DdKeyboardSelect(start)

\* one dropdown selection, no run and no selector resolution going on
InitDdCall == InitRun /\ IdleSel /\ InitDd /\ IdleRc /\ IdleCap /\ IdleRt
    /\ IdleRep /\ IdleWt /\ IdleSw /\ IdleFl /\ IdleAl /\ IdleBz /\ IdleAu
    /\ IdleSrv

SpecDd == InitDdCall /\ [][NextDd]_vars

----------------------------------------------------------------------------
(* Properties of the dropdown selection (specification SpecDd).            *)

\* C10: when the displayed value already equals the desired option at the
\* time a dropdown selection is invoked on a visible dropdown, the operation
\* issues no click, on the trigger or on an option, and returns success.
C10_NoClickWhenSelected ==
    displayed0 = optionText =>
        /\ triggerClicks = 0
        /\ optionClicks = 0
        /\ (ddResult # "running" /\ ddPc # "notVisible") => ddResult = "ok"

\* the desired option is one of the options of the list
OptionPresent == \E k \in DOMAIN items : Trim(items[k]) = optionText

\* C12: when the desired option text is not in the option list, a dropdown
\* selection that went on to open the list ends in failure and leaves the
\* displayed value as it was: it never selects another option and reports
\* success.
C12_AbsentOptionFails ==
    (~OptionPresent /\ ddResult # "running" /\ ddPc # "skipped") =>
        /\ ddResult = "error"
        /\ displayed = displayed0

\* C21: within a dropdown selection the trigger is clicked only while the
\* option list is not open: no click on the trigger is issued while the list
\* opened by an earlier click is still open.
C21_ReclickOnlyWhenClosed ==
    [][triggerClicks' > triggerClicks => ~listOpen]_vars

\* C26: selectFromKendoDropdown skips the interaction only when the displayed
\* value equals the desired option; for any other displayed value, also one
\* that contains the option text, it selects the option or fails.
C26_SkipOnlyWhenEqual ==
    (ddOp = "helper" /\ ddPc = "skipped") => Trim(displayed0) = optionText

----------------------------------------------------------------------------
(* HomePage.retryClick(locator, maxAttempts = 3).                          *)

\* largest maxAttempts a caller passes
MaxAttemptsBound == 4

\* errors of locator.waitFor({ state: 'visible' }) and locator.click()
ClickErrors ==
    { [message |-> <<"locator.waitFor:", "Timeout", "30000ms", "exceeded">>],
      [message |-> <<"locator.click:", "Timeout", "30000ms", "exceeded">>],
      [message |-> <<"locator.click:", "Target", "closed">>] }

InitRc ==
    /\ rcMax \in 0..MaxAttemptsBound
    /\ rcAttempt = 1
    /\ rcErrs = <<>>
    /\ rcClicked = FALSE
    /\ rcThrown = NoError
    /\ rcResult = "running"

RcInLoopMutant(a, max) == a < max
\* for (let attempt = 1; attempt <= maxAttempts; attempt++)
RcInLoop(a, max) == a <= max

\* the try block completes: waitFor, stability wait, click; return true
RcAttemptOk ==
    /\ rcResult = "running"
    /\ RcInLoop(rcAttempt, rcMax)
    /\ rcClicked' = TRUE
    /\ rcResult' = "true"
    /\ UNCHANGED <<rcMax, rcAttempt, rcErrs, rcThrown>>
    /\ UNCHANGED notRc

\* waitFor or click throws: catch (error) { log; if (attempt === maxAttempts)
\* throw error; wait 1000 }  and the loop's attempt++
RcAttemptFails(error) ==
    /\ rcResult = "running"
    /\ RcInLoop(rcAttempt, rcMax)
    /\ rcErrs' = Append(rcErrs, error)
    /\ IF rcAttempt = rcMax
       THEN /\ rcThrown' = error
            /\ rcResult' = "threw"
            /\ UNCHANGED rcAttempt
       ELSE /\ rcAttempt' = rcAttempt + 1
            /\ UNCHANGED <<rcThrown, rcResult>>
    /\ UNCHANGED <<rcMax, rcClicked>>
    /\ UNCHANGED notRc

\* the loop condition is false: return false
RcFallThrough ==
    /\ rcResult = "running"
    /\ ~RcInLoop(rcAttempt, rcMax)
    /\ rcResult' = "false"
    /\ UNCHANGED <<rcMax, rcAttempt, rcErrs, rcClicked, rcThrown>>
    /\ UNCHANGED notRc

NextRc ==
    \/ RcAttemptOk
    \/ \E error \in ClickErrors : RcAttemptFails(error)
    \/ RcFallThrough

\* one retryClick call
InitRcCall == InitRun /\ IdleSel /\ IdleDd /\ InitRc /\ IdleCap /\ IdleRt
    /\ IdleRep /\ IdleWt /\ IdleSw /\ IdleFl /\ IdleAl /\ IdleBz /\ IdleAu
    /\ IdleSrv

SpecRc == InitRcCall /\ [][NextRc]_vars

\* C11: for maxAttempts >= 1, retryClick makes at most maxAttempts attempts;
\* when no attempt succeeds it has made exactly maxAttempts attempts when it
\* ends, and it ends by throwing the error of the last attempt; it returns
\* only after a successful click (it never returns false).
C11_ExactlyMaxAttempts ==
    rcMax >= 1 =>
        /\ Len(rcErrs) <= rcMax
        /\ rcResult # "false"
        /\ rcResult = "true" => rcClicked
        /\ (rcResult # "running" /\ ~rcClicked) =>
               /\ rcResult = "threw"
               /\ Len(rcErrs) = rcMax
               /\ rcThrown = rcErrs[Len(rcErrs)]
        /\ rcResult = "running" => rcThrown = NoError

\* the default budget of three attempts was used up by a target that never
\* became clickable, each attempt failing differently
C11_Witness ==
    /\ rcMax = 3
    /\ rcResult = "threw"
    /\ Len(rcErrs) = 3
    /\ rcErrs[1] # rcErrs[3]

----------------------------------------------------------------------------
(* A result-tracking scenario with its catch block, and DOMCapture.        *)
(* "guide": the TS001 pattern whose catch block calls captureOnFailure;     *)
(* "suite": TS001 of tests/test-suite.spec.ts, whose catch block does not.  *)

CapTestName == "TS001"

\* the test.step blocks of the scenario
CapSteps == <<"Navigate to home page", "Perform customer search",
              "Verify search results">>

\* `${testName}_${label}_${timestamp}` followed by the suffix
FileName(test, label, stamp, suffix) == <<test, "_", label, "_", stamp, suffix>>

\* the awaits and file writes of DOMCapture.capture, in order
CaptureOps(includeScreenshot) ==
    <<"page.content", "write.html", "accessibility.snapshot", "write.accessibility">>
    \o (IF includeScreenshot THEN <<"page.screenshot">> ELSE <<>>)
    \o <<"page.title", "write.metadata">>

\* the awaits and file writes of DOMCapture.captureOnFailure, in order
FailureOps == <<"page.content", "write.html", "page.screenshot", "page.title",
                "write.failure">>

\* the file an operation leaves in dom-captures, if any
Written(op, test, label, stamp) ==
    CASE op = "write.html" -> {FileName(test, label, stamp, ".html")}
      [] op = "write.accessibility" -> {FileName(test, label, stamp, "_accessibility.json")}
      [] op = "page.screenshot" -> {FileName(test, label, stamp, ".png")}
      [] op = "write.metadata" -> {FileName(test, label, stamp, "_metadata.json")}
      [] op = "write.failure" -> {FileName(test, label, stamp, "_failure.json")}
      [] OTHER -> {}

\* the label in the file names of the executing method
CapLabel == IF capCall = "captureOnFailure" THEN "FAILURE" ELSE "Initial_Home_Load"

OpError(op) == [message |-> <<op, "failed">>]

CaptureCatchMutant(error) == error
\* catch (captureError) { console.error(...) }: nothing leaves the method
CaptureCatch(error) == NoError

InitCap ==
    /\ capKind \in {"guide", "suite"}
    /\ capPc = "try"
    /\ capStep = 1
    /\ capErr = NoError
    /\ capCall = "none"
    /\ capOps = <<>>
    /\ capRet = "idle"
    /\ capInclude \in BOOLEAN
    /\ capCalls = 0
    /\ capFiles = {}
    /\ capLogged = <<>>
    /\ capMethodThrown = NoError
    /\ capFailureCaptures = 0
    /\ capRecords = <<>>
    /\ capRethrown = NoError

\* a DOMCapture method is entered: timestamp and filename are computed
CapBegin(method, ret) ==
    /\ capCall' = method
    /\ capOps' = IF method = "capture" THEN CaptureOps(capInclude) ELSE FailureOps
    /\ capRet' = ret
    /\ capCalls' = capCalls + 1
    /\ capMethodThrown' = NoError
    /\ capPc' = "method"

\* the step in progress completes.  In the guide, step 1 ends with
\* DOMCapture.capture(page, 'TS001', 'Initial_Home_Load', includeScreenshot);
\* after the last step the Pass record is pushed.
CapStepOk ==
    /\ capPc = "try"
    /\ IF capKind = "guide" /\ capStep = 1
       THEN /\ CapBegin("capture", "try")
            /\ UNCHANGED <<capStep, capRecords>>
       ELSE /\ IF capStep = Len(CapSteps)
               THEN /\ capRecords' = Append(capRecords, "Pass")
                    /\ capPc' = "passed"
                    /\ UNCHANGED capStep
               ELSE /\ capStep' = capStep + 1
                    /\ UNCHANGED <<capPc, capRecords>>
            /\ UNCHANGED <<capCall, capOps, capRet, capCalls, capMethodThrown>>
    /\ UNCHANGED <<capKind, capErr, capInclude, capFiles, capLogged,
                   capFailureCaptures, capRethrown>>
    /\ UNCHANGED notCap

\* the step in progress throws err; control reaches catch (err)
CapStepThrows(err) ==
    /\ capPc = "try"
    /\ capErr' = err
    /\ capPc' = "caught"
    /\ UNCHANGED <<capKind, capStep, capCall, capOps, capRet, capInclude, capCalls,
                   capFiles, capLogged, capMethodThrown, capFailureCaptures,
                   capRecords, capRethrown>>
    /\ UNCHANGED notCap

\* first statement of the catch block:
\* guide: await DOMCapture.captureOnFailure(page, 'TS001', err);  suite: the push
CapCatch ==
    /\ capPc = "caught"
    /\ IF capKind = "guide"
       THEN CapBegin("captureOnFailure", "push")
       ELSE /\ capPc' = "push"
            /\ UNCHANGED <<capCall, capOps, capRet, capCalls, capMethodThrown>>
    /\ UNCHANGED <<capKind, capStep, capErr, capInclude, capFiles, capLogged,
                   capFailureCaptures, capRecords, capRethrown>>
    /\ UNCHANGED notCap

\* the next operation of the executing method succeeds, or throws and the
\* method's catch takes over
CapOp(ok) ==
    /\ capPc = "method"
    /\ capOps # <<>>
    /\ IF ok
       THEN /\ capFiles' = capFiles \cup
                   Written(Head(capOps), CapTestName, CapLabel, capCalls)
            /\ capOps' = Tail(capOps)
            /\ UNCHANGED <<capLogged, capMethodThrown>>
       ELSE /\ capLogged' = Append(capLogged, OpError(Head(capOps)))
            /\ capMethodThrown' = CaptureCatch(OpError(Head(capOps)))
            /\ capOps' = <<>>
            /\ UNCHANGED capFiles
    /\ UNCHANGED <<capKind, capPc, capStep, capErr, capCall, capRet, capInclude,
                   capCalls, capFailureCaptures, capRecords, capRethrown>>
    /\ UNCHANGED notCap

\* the method is left.  Normally the caller continues; an error leaving the
\* method is thrown at the caller's await.
CapReturn ==
    /\ capPc = "method"
    /\ capOps = <<>>
    /\ capCall' = "none"
    /\ IF capMethodThrown = NoError
       THEN /\ capFailureCaptures' =
                   capFailureCaptures + (IF capCall = "captureOnFailure" THEN 1 ELSE 0)
            /\ capPc' = capRet
            /\ capStep' = IF capRet = "try" THEN capStep + 1 ELSE capStep
            /\ UNCHANGED <<capErr, capRethrown>>
       ELSE /\ IF capRet = "try"
               THEN /\ capErr' = capMethodThrown
                    /\ capPc' = "caught"
                    /\ UNCHANGED capRethrown
               ELSE /\ capRethrown' = capMethodThrown
                    /\ capPc' = "failed"
                    /\ UNCHANGED capErr
            /\ UNCHANGED <<capFailureCaptures, capStep>>
    /\ UNCHANGED <<capKind, capOps, capRet, capInclude, capCalls, capFiles,
                   capLogged, capMethodThrown, capRecords>>
    /\ UNCHANGED notCap

\* results.push({ ..., status: 'Fail', ... })
CapPush ==
    /\ capPc = "push"
    /\ capRecords' = Append(capRecords, "Fail")
    /\ capPc' = "rethrow"
    /\ UNCHANGED <<capKind, capStep, capErr, capCall, capOps, capRet, capInclude,
                   capCalls, capFiles, capLogged, capMethodThrown,
                   capFailureCaptures, capRethrown>>
    /\ UNCHANGED notCap

\* throw err;
CapRethrow ==
    /\ capPc = "rethrow"
    /\ capRethrown' = capErr
    /\ capPc' = "failed"
    /\ UNCHANGED <<capKind, capStep, capErr, capCall, capOps, capRet, capInclude,
                   capCalls, capFiles, capLogged, capMethodThrown,
                   capFailureCaptures, capRecords>>
    /\ UNCHANGED notCap

NextCap ==
    \/ CapStepOk
    \/ \E err \in Errors : CapStepThrows(err)
    \/ CapCatch
    \/ \E ok \in BOOLEAN : CapOp(ok)
    \/ CapReturn
    \/ CapPush
    \/ CapRethrow

\* one scenario execution
InitCapCall == InitRun /\ IdleSel /\ IdleDd /\ IdleRc /\ InitCap /\ IdleRt
    /\ IdleRep /\ IdleWt /\ IdleSw /\ IdleFl /\ IdleAl /\ IdleBz /\ IdleAu
    /\ IdleSrv

SpecCap == InitCapCall /\ [][NextCap]_vars

----------------------------------------------------------------------------
(* Properties of failure capture (specification SpecCap).                  *)

\* C13: no scenario failure reaches the runner unless a captureOnFailure call
\* has run to completion before the re-throw.
C13_CaptureBeforeRethrow ==
    capRethrown # NoError => capFailureCaptures >= 1

\* C14: no error ever leaves DOMCapture.capture or captureOnFailure: what
\* goes wrong inside is logged, the error the catch block handles is the
\* step's own error, and the error the scenario re-throws is that error.
C14_CaptureNeverThrows ==
    /\ capMethodThrown = NoError
    /\ capErr \in Errors \cup {NoError}
    /\ capRethrown \in {NoError, capErr}
    /\ capPc = "failed" => capRethrown = capErr /\ capErr # NoError

\* the screenshot of captureOnFailure failed, the failure was logged, and the
\* scenario re-threw
C14_Witness ==
    /\ capKind = "guide"
    /\ capPc = "failed"
    /\ \E k \in DOMAIN capLogged : capLogged[k] = OpError("page.screenshot")
    /\ capFailureCaptures = 1

\* C15: once captureOnFailure has returned for a failing scenario,
\* dom-captures holds a markup file, a screenshot file and a metadata file
\* with one common prefix made of the scenario identifier and the label of
\* the step that was in progress.
C15_BundleHasStepPrefix ==
    (capKind = "guide" /\ capFailureCaptures >= 1) =>
        \E n \in 1..capCalls :
            /\ FileName(CapTestName, CapSteps[capStep], n, ".html") \in capFiles
            /\ FileName(CapTestName, CapSteps[capStep], n, ".png") \in capFiles
            /\ \/ FileName(CapTestName, CapSteps[capStep], n, "_failure.json") \in capFiles
               \/ FileName(CapTestName, CapSteps[capStep], n, "_metadata.json") \in capFiles

----------------------------------------------------------------------------
(* Retries above the interaction primitives: the runner's `retries`, the   *)
(* retry loop of the TS005 step 'Navigate to Customer Accounts' and         *)
(* QuoteSummaryPage.generateQuotePremium.                                   *)

\* process.env.CI ? 2 : 0
CiRetries == 2
Retries(ci) == IF ci THEN CiRetries ELSE 0

\* const maxRetries = 3
StepMaxRetries == 3

InitRt ==
    /\ rtCi \in BOOLEAN
    /\ rtOp \in {"navigate", "generate"}
    /\ rtRuns = 1
    /\ rtPc = "op"
    /\ rtRetryCount = 0
    /\ rtErrs = <<>>
    /\ rtReexec = 0
    /\ rtStatus = "running"

\* navigate: one iteration of while (retryCount < maxRetries) { try {
\*   navigateToCustomerAccounts(); waitForPageLoad(); break } catch (error) {
\*   retryCount++; if (retryCount === maxRetries) throw error; wait } }
RtNavigate(ok, err) ==
    /\ rtPc = "op"
    /\ rtOp = "navigate"
    /\ rtRetryCount < StepMaxRetries
    /\ rtReexec' = rtReexec + (IF rtErrs # <<>> THEN 1 ELSE 0)
    /\ IF ok
       THEN /\ rtStatus' = "passed"
            /\ rtPc' = "ended"
            /\ UNCHANGED <<rtRetryCount, rtErrs>>
       ELSE /\ rtRetryCount' = rtRetryCount + 1
            /\ rtErrs' = Append(rtErrs, err)
            /\ IF rtRetryCount + 1 = StepMaxRetries
               THEN rtStatus' = "failed" /\ rtPc' = "ended"
               ELSE UNCHANGED <<rtStatus, rtPc>>
    /\ UNCHANGED <<rtCi, rtOp, rtRuns>>
    /\ UNCHANGED notRt

\* generate: try { waitForElement(button) } catch { reload; waitForPageReady;
\*   waitForElement(button) }, then the click
RtGenerate(ok, err) ==
    /\ rtPc = "op"
    /\ rtOp = "generate"
    /\ rtReexec' = rtReexec + (IF rtErrs # <<>> THEN 1 ELSE 0)
    /\ IF ok
       THEN /\ rtStatus' = "passed"
            /\ rtPc' = "ended"
            /\ UNCHANGED rtErrs
       ELSE /\ rtErrs' = Append(rtErrs, err)
            /\ IF rtErrs # <<>>
               THEN rtStatus' = "failed" /\ rtPc' = "ended"
               ELSE UNCHANGED <<rtStatus, rtPc>>
    /\ UNCHANGED <<rtCi, rtOp, rtRuns, rtRetryCount>>
    /\ UNCHANGED notRt

\* the runner runs a failed test again while its retry budget lasts
RtRunnerRetry ==
    /\ rtStatus = "failed"
    /\ rtRuns <= Retries(rtCi)
    /\ rtRuns' = rtRuns + 1
    /\ rtPc' = "op"
    /\ rtRetryCount' = 0
    /\ rtErrs' = <<>>
    /\ rtStatus' = "running"
    /\ UNCHANGED <<rtCi, rtOp, rtReexec>>
    /\ UNCHANGED notRt

NextRt ==
    \/ \E ok \in BOOLEAN, err \in Errors : RtNavigate(ok, err)
    \/ \E ok \in BOOLEAN, err \in Errors : RtGenerate(ok, err)
    \/ RtRunnerRetry

\* one scenario under the runner
InitRtCall == InitRun /\ IdleSel /\ IdleDd /\ IdleRc /\ IdleCap /\ InitRt
    /\ IdleRep /\ IdleWt /\ IdleSw /\ IdleFl /\ IdleAl /\ IdleBz /\ IdleAu
    /\ IdleSrv

SpecRt == InitRtCall /\ [][NextRt]_vars

\* C16: nothing is retried above the interaction primitives: an operation
\* that failed in a scenario execution is not executed again in it, and a
\* scenario is executed once per run.
C16_NoRetryAbovePrimitives ==
    /\ rtReexec = 0
    /\ rtRuns <= 1

----------------------------------------------------------------------------
(* Report generation as a function of the list of records: the summary of  *)
(* CustomHtmlReporter.onEnd and of generateHtmlReport.                      *)

\* longest list of records handed to a generator
MaxRecords == 4

SeqsUpTo(S, n) == UNION {[1..m -> S] : m \in 0..n}

\* statuses of the records each generator receives
StatusesOf(gen) ==
    IF gen = "reporter" THEN {"passed", "failed", "skipped"} ELSE {"Pass", "Fail"}

InitRep ==
    /\ repGen \in {"reporter", "html"}
    /\ repList \in SeqsUpTo([status : StatusesOf(repGen)], MaxRecords)
    /\ repOut = NoSummary

\* CustomHtmlReporter.onEnd renders this.reports
RepOnEnd ==
    /\ repGen = "reporter"
    /\ repOut = NoSummary
    /\ repOut' = ReporterSummary(repList)
    /\ UNCHANGED <<repGen, repList>>
    /\ UNCHANGED notRep

\* generateHtmlReport(results)
RepGenerateHtml ==
    /\ repGen = "html"
    /\ repOut = NoSummary
    /\ repOut' = HtmlSummary(repList)
    /\ UNCHANGED <<repGen, repList>>
    /\ UNCHANGED notRep

NextRep ==
    \/ RepOnEnd
    \/ RepGenerateHtml

\* one report generation
InitRepCall == InitRun /\ IdleSel /\ IdleDd /\ IdleRc /\ IdleCap /\ IdleRt /\ InitRep
    /\ IdleWt /\ IdleSw /\ IdleFl /\ IdleAl /\ IdleBz /\ IdleAu /\ IdleSrv

SpecRep == InitRepCall /\ [][NextRep]_vars

\* C20: with zero records a report generation renders the zero-state: total
\* 0, every counter 0 and pass rate 0.
C20_ZeroState ==
    (repList = <<>> /\ repOut # NoSummary) =>
        /\ repOut.total = 0
        /\ repOut.passed = 0
        /\ repOut.failed = 0
        /\ repOut.passRate = 0
        /\ repGen = "reporter" => repOut.skipped = 0

\* the reporter rendered an empty list
C20_Witness ==
    /\ repGen = "reporter"
    /\ repList = <<>>
    /\ repOut # NoSummary

----------------------------------------------------------------------------
(* The suspension points of a scenario: waits with their timeouts, the     *)
(* bounded Add/Edit enable loop of TS002 and the runner's test timeout.     *)
(* Times are in ms; a timeout of 0 disables the timeout of a wait.          *)

\* ms by which time advances in one step of a wait
TickMs == 10000
\* waits a scenario makes before the enable loop
ScenarioWaits == 2

\* options?.timeout || 10000
ElementTimeoutDefault == 10000
\* use: { actionTimeout: 30000 }
ActionTimeout == 30000
\* use: { navigationTimeout: 60000 }
NavigationTimeout == 60000
\* timeout: 90000
TestTimeout == 90000
\* while (retryCount < 3)
EnableRetries == 3
\* await page.waitForTimeout(2000)
RetrySleepMs == 2000

\* the options a caller passes to waitForElement: none, { timeout: 0 },
\* { timeout: 20000 }
NoOption == [given |-> FALSE, ms |-> 0]
CallerOptions == {NoOption, [given |-> TRUE, ms |-> 0], [given |-> TRUE, ms |-> 20000]}

ElementTimeoutNullish(opt) == IF opt.given THEN opt.ms ELSE ElementTimeoutDefault
\* const timeout = options?.timeout || 10000
ElementTimeout(opt) == IF opt.given /\ opt.ms # 0 THEN opt.ms ELSE ElementTimeoutDefault

\* the timeout a wait runs with
Effective(kind, opt) ==
    CASE kind = "waitForElement" -> ElementTimeout(opt)
      [] kind = "alertHidden" -> ActionTimeout
      [] kind = "loadState" -> NavigationTimeout

InitWt ==
    /\ wtPc = "step"
    /\ wtKind = "none"
    /\ wtOption = NoOption
    /\ wtTimeout = 0
    /\ wtElapsed = 0
    /\ wtClock = 0
    /\ wtLeft = ScenarioWaits
    /\ wtRetry = 0
    /\ wtStatus = "running"

\* the scenario reaches a wait: waitForElement(selector, options),
\* alert.waitFor({ state: 'hidden' }) or page.waitForLoadState('networkidle')
WtBeginWait(kind, opt) ==
    /\ wtStatus = "running"
    /\ wtPc = "step"
    /\ wtLeft > 0
    /\ wtClock < TestTimeout
    /\ kind = "waitForElement" \/ opt = NoOption
    /\ wtKind' = kind
    /\ wtOption' = opt
    /\ wtTimeout' = Effective(kind, opt)
    /\ wtElapsed' = 0
    /\ wtLeft' = wtLeft - 1
    /\ wtPc' = "wait"
    /\ UNCHANGED <<wtClock, wtRetry, wtStatus>>
    /\ UNCHANGED notWt

\* the awaited condition holds: the wait resolves
WtConditionMet ==
    /\ wtStatus = "running"
    /\ wtPc = "wait"
    /\ wtClock < TestTimeout
    /\ wtPc' = "step"
    /\ UNCHANGED <<wtKind, wtOption, wtTimeout, wtElapsed, wtClock, wtLeft,
                   wtRetry, wtStatus>>
    /\ UNCHANGED notWt

\* time passes while the condition does not hold
WtTick ==
    /\ wtStatus = "running"
    /\ wtPc = "wait"
    /\ wtClock < TestTimeout
    /\ ~(wtTimeout > 0 /\ wtElapsed >= wtTimeout)
    /\ wtElapsed' = wtElapsed + TickMs
    /\ wtClock' = wtClock + TickMs
    /\ UNCHANGED <<wtPc, wtKind, wtOption, wtTimeout, wtLeft, wtRetry, wtStatus>>
    /\ UNCHANGED notWt

\* the wait's timeout expires: TimeoutError, the scenario fails
WtExpire ==
    /\ wtStatus = "running"
    /\ wtPc = "wait"
    /\ wtClock < TestTimeout
    /\ wtTimeout > 0
    /\ wtElapsed >= wtTimeout
    /\ wtStatus' = "failed"
    /\ wtPc' = "ended"
    /\ UNCHANGED <<wtKind, wtOption, wtTimeout, wtElapsed, wtClock, wtLeft, wtRetry>>
    /\ UNCHANGED notWt

\* the waits are done: the scenario reaches the enable loop
WtEnterLoop ==
    /\ wtStatus = "running"
    /\ wtPc = "step"
    /\ wtLeft = 0
    /\ wtClock < TestTimeout
    /\ wtPc' = "loop"
    /\ UNCHANGED <<wtKind, wtOption, wtTimeout, wtElapsed, wtClock, wtLeft,
                   wtRetry, wtStatus>>
    /\ UNCHANGED notWt

\* while (retryCount < 3) { if (isEnabled) break; switchLabel.click();
\*   waitForTimeout(2000); retryCount++ }
WtLoop(isEnabled) ==
    /\ wtStatus = "running"
    /\ wtPc = "loop"
    /\ wtClock < TestTimeout
    /\ IF wtRetry < EnableRetries /\ ~isEnabled
       THEN /\ wtRetry' = wtRetry + 1
            /\ wtClock' = wtClock + RetrySleepMs
            /\ UNCHANGED wtPc
       ELSE /\ wtPc' = "finish"
            /\ UNCHANGED <<wtRetry, wtClock>>
    /\ UNCHANGED <<wtKind, wtOption, wtTimeout, wtElapsed, wtLeft, wtStatus>>
    /\ UNCHANGED notWt

\* the test function returns
WtFinish ==
    /\ wtStatus = "running"
    /\ wtPc = "finish"
    /\ wtClock < TestTimeout
    /\ wtStatus' = "passed"
    /\ wtPc' = "ended"
    /\ UNCHANGED <<wtKind, wtOption, wtTimeout, wtElapsed, wtClock, wtLeft, wtRetry>>
    /\ UNCHANGED notWt

\* the runner's test timeout ends the scenario
WtTestTimeout ==
    /\ wtStatus = "running"
    /\ wtClock >= TestTimeout
    /\ wtStatus' = "timedOut"
    /\ wtPc' = "ended"
    /\ UNCHANGED <<wtKind, wtOption, wtTimeout, wtElapsed, wtClock, wtLeft, wtRetry>>
    /\ UNCHANGED notWt

\* the steps the scenario and the clock take by themselves
WtProgress ==
    \/ \E kind \in {"waitForElement", "alertHidden", "loadState"},
          opt \in CallerOptions : WtBeginWait(kind, opt)
    \/ WtTick
    \/ WtExpire
    \/ WtEnterLoop
    \/ \E isEnabled \in BOOLEAN : WtLoop(isEnabled)
    \/ WtFinish
    \/ WtTestTimeout

NextWt ==
    \/ WtProgress
    \/ WtConditionMet

\* one scenario execution
InitWtCall == InitRun /\ IdleSel /\ IdleDd /\ IdleRc /\ IdleCap /\ IdleRt
    /\ IdleRep /\ InitWt /\ IdleSw /\ IdleFl /\ IdleAl /\ IdleBz /\ IdleAu
    /\ IdleSrv

\* the scenario keeps executing and time keeps passing; whether an awaited
\* condition ever holds is up to the page
SpecWt == InitWtCall /\ [][NextWt]_vars /\ WF_vars(WtProgress)

\* C18: every wait in progress runs with a finite timeout (also when the
\* caller passed none or 0), the enable loop makes at most three iterations,
\* and every scenario execution eventually reaches a terminal state.
C18_EventuallyTerminal ==
    /\ [](wtPc = "wait" => wtTimeout > 0)
    /\ [](wtRetry <= EnableRetries)
    /\ <>(wtStatus \in {"passed", "failed", "timedOut"})

\* a waitForElement called with { timeout: 0 } ran into the default timeout
C18_Witness ==
    /\ wtStatus = "failed"
    /\ wtKind = "waitForElement"
    /\ wtOption = [given |-> TRUE, ms |-> 0]
    /\ wtElapsed >= ElementTimeoutDefault

----------------------------------------------------------------------------
(* TS002 step 5 of all-test-suite.spec.ts: turn the Non-Owned Auto switch  *)
(* on and open its Add/Edit page.                                          *)

InitSw ==
    /\ swPc = "expectRow"
    /\ swOn \in BOOLEAN
    /\ btnEnabled \in BOOLEAN
    /\ btnEnabled => swOn
    /\ swBusy \in BOOLEAN
    /\ swSeenOn = FALSE
    /\ retryCount = 0
    /\ swClicks = 0
    /\ swLog = <<>>
    /\ swResult = "running"

\* switchLabel.click(): the label toggles the switch, the page turns busy
\* or not while it saves the change
SwClickLabel(busy) ==
    /\ swOn' = ~swOn
    /\ swClicks' = swClicks + 1
    /\ swBusy' = busy

\* expect(nonOwnedAutoRow).toBeVisible, expect(switchLabel).toBeVisible
SwExpectRow(ok) ==
    /\ swResult = "running"
    /\ swPc = "expectRow"
    /\ IF ok
       THEN swPc' = "readSwitch" /\ UNCHANGED swResult
       ELSE swPc' = "rowNotVisible" /\ swResult' = "error"
    /\ UNCHANGED <<swOn, swSeenOn, btnEnabled, retryCount, swClicks, swBusy,
                   swLog>>
    /\ UNCHANGED notSw

\* const isSwitchOn = await switchOn.isVisible();
\* if (!isSwitchOn) { await switchLabel.click(); ... }
SwEnsureOn(busy) ==
    /\ swResult = "running"
    /\ swPc = "readSwitch"
    /\ swSeenOn' = swOn
    /\ IF ~swOn
       THEN SwClickLabel(busy)
       ELSE busy = swBusy /\ UNCHANGED <<swOn, swClicks, swBusy>>
    /\ swPc' = "verifyOn"
    /\ UNCHANGED <<btnEnabled, retryCount, swLog, swResult>>
    /\ UNCHANGED notSw

\* await expect(switchOn).toBeVisible({ timeout })
SwVerifyOn ==
    /\ swResult = "running"
    /\ swPc = "verifyOn"
    /\ swSeenOn' = swOn
    /\ IF swOn
       THEN swPc' = "busyWait" /\ UNCHANGED swResult
       ELSE swPc' = "switchNotOn" /\ swResult' = "error"
    /\ UNCHANGED <<swOn, btnEnabled, retryCount, swClicks, swBusy, swLog>>
    /\ UNCHANGED notSw

\* the page finishes loading: pace-running is removed
SwPaceDone ==
    /\ swResult = "running"
    /\ swBusy
    /\ swBusy' = FALSE
    /\ UNCHANGED <<swPc, swOn, swSeenOn, btnEnabled, retryCount, swClicks,
                   swLog, swResult>>
    /\ UNCHANGED notSw

\* await page.waitForFunction(() => !...contains('pace-running'), { timeout })
\*   .catch(() => console.log('Loading state check completed'));
\* returns when the flag is clear, logs and goes on when it times out
SwBusyWait ==
    /\ swResult = "running"
    /\ swPc = "busyWait"
    /\ swLog' = IF swBusy THEN Append(swLog, "Loading state check completed")
                ELSE swLog
    /\ swPc' = "expectButton"
    /\ UNCHANGED <<swOn, swSeenOn, btnEnabled, retryCount, swClicks, swBusy,
                   swResult>>
    /\ UNCHANGED notSw

\* await expect(addEditButton).toBeVisible({ timeout })
SwExpectButton(ok) ==
    /\ swResult = "running"
    /\ swPc = "expectButton"
    /\ IF ok
       THEN swPc' = "loop" /\ UNCHANGED swResult
       ELSE swPc' = "buttonNotVisible" /\ swResult' = "error"
    /\ UNCHANGED <<swOn, swSeenOn, btnEnabled, retryCount, swClicks, swBusy,
                   swLog>>
    /\ UNCHANGED notSw

\* the page's data binding brings the button in line with the switch
SwDataBinding ==
    /\ swResult = "running"
    /\ btnEnabled # swOn
    /\ btnEnabled' = swOn
    /\ UNCHANGED <<swPc, swOn, swSeenOn, retryCount, swClicks, swBusy, swLog,
                   swResult>>
    /\ UNCHANGED notSw

\* one iteration of the enable loop:
\* isEnabled = await addEditButton.isEnabled().catch(() => false);
\* isEnabled ? break : (switchLabel.click(), retryCount++)
SwLoop(readOk, busy) ==
    /\ swResult = "running"
    /\ swPc = "loop"
    /\ IF retryCount < EnableRetries /\ ~(readOk /\ btnEnabled)
       THEN /\ SwClickLabel(busy)
            /\ retryCount' = retryCount + 1
            /\ UNCHANGED swPc
       ELSE /\ readOk /\ busy = swBusy
            /\ swPc' = "expectEnabled"
            /\ UNCHANGED <<swOn, swClicks, swBusy, retryCount>>
    /\ UNCHANGED <<swSeenOn, btnEnabled, swLog, swResult>>
    /\ UNCHANGED notSw

\* await expect(addEditButton).toBeEnabled({ timeout }); addEditButton.click()
SwExpectEnabled ==
    /\ swResult = "running"
    /\ swPc = "expectEnabled"
    /\ IF btnEnabled
       THEN swPc' = "waitForURL" /\ UNCHANGED swResult
       ELSE swPc' = "notEnabled" /\ swResult' = "error"
    /\ UNCHANGED <<swOn, swSeenOn, btnEnabled, retryCount, swClicks, swBusy,
                   swLog>>
    /\ UNCHANGED notSw

\* await page.waitForURL(/\/NonOwnedAuto/, { timeout })
SwWaitForURL(ok) ==
    /\ swResult = "running"
    /\ swPc = "waitForURL"
    /\ IF ok
       THEN swPc' = "opened" /\ swResult' = "ok"
       ELSE swPc' = "urlTimeout" /\ swResult' = "error"
    /\ UNCHANGED <<swOn, swSeenOn, btnEnabled, retryCount, swClicks, swBusy,
                   swLog>>
    /\ UNCHANGED notSw

NextSw ==
    \/ \E ok \in BOOLEAN : SwExpectRow(ok)
    \/ \E busy \in BOOLEAN : SwEnsureOn(busy)
    \/ SwVerifyOn
    \/ SwPaceDone
    \/ SwBusyWait
    \/ \E ok \in BOOLEAN : SwExpectButton(ok)
    \/ SwDataBinding
    \/ \E readOk, busy \in BOOLEAN : SwLoop(readOk, busy)
    \/ SwExpectEnabled
    \/ \E ok \in BOOLEAN : SwWaitForURL(ok)

\* one execution of the switch step
InitSwCall == InitRun /\ IdleSel /\ IdleDd /\ IdleRc /\ IdleCap /\ IdleRt
    /\ IdleRep /\ IdleWt /\ InitSw /\ IdleFl /\ IdleAl /\ IdleBz /\ IdleAu
    /\ IdleSrv

SpecSw == InitSwCall /\ [][NextSw]_vars

\* C22: in the Non-Owned Auto switch step the switch label is clicked only
\* when the switch is off: a switch observed on is never clicked, so no step
\* turns a switch that is on off again.
C22_ClickOnlyWhenOff ==
    [][swClicks' > swClicks => ~swOn]_vars

----------------------------------------------------------------------------
(* Typing-simulation fills: TestHelpers.fillFieldSlowly, BasePage.fillField *)
(* and AccountsPage.fillNameOfApplicant.                                    *)

\* longest text entered and longest content a field starts with
MaxText == 3
MaxPrior == 2
FillChars == {"a", "b"}
FillTexts == UNION {[1..n -> FillChars] : n \in 1..MaxText}
PriorValues == UNION {[1..n -> FillChars] : n \in 0..MaxPrior}

\* the value after a key is typed with the caret behind `caret` characters
TypeChar(value, caret, char) ==
    SubSeq(value, 1, caret) \o <<char>> \o SubSeq(value, caret + 1, Len(value))

InitFl ==
    /\ flOp \in {"fillFieldSlowly", "fillField", "fillNameOfApplicant"}
    /\ flText \in FillTexts
    /\ flValue \in PriorValues
    /\ flValue0 = flValue
    /\ flCaret = 0
    /\ flKeys = <<>>
    /\ flPc = "waitVisible"
    /\ flResult = "running"

\* field.waitFor({ state: 'visible' }) / this.waitForElement(element)
FlWaitVisible(ok) ==
    /\ flResult = "running"
    /\ flPc = "waitVisible"
    /\ IF ok
       THEN flPc' = "focus" /\ UNCHANGED flResult
       ELSE flPc' = "notVisible" /\ flResult' = "error"
    /\ UNCHANGED <<flOp, flText, flValue, flValue0, flCaret, flKeys>>
    /\ UNCHANGED notFl

\* fillFieldSlowly, fillNameOfApplicant: await field.focus()
\* (the value stays, the caret is in front of it or behind it)
FlFocus(caret) ==
    /\ flResult = "running"
    /\ flPc = "focus"
    /\ flOp \in {"fillFieldSlowly", "fillNameOfApplicant"}
    /\ caret \in {0, Len(flValue)}
    /\ flCaret' = caret
    /\ flPc' = "type"
    /\ UNCHANGED <<flOp, flText, flValue, flValue0, flKeys, flResult>>
    /\ UNCHANGED notFl

\* fillField: await element.click(); await element.fill('');
FlClickAndClear ==
    /\ flResult = "running"
    /\ flPc = "focus"
    /\ flOp = "fillField"
    /\ flValue' = <<>>
    /\ flCaret' = 0
    /\ flPc' = "type"
    /\ UNCHANGED <<flOp, flText, flValue0, flKeys, flResult>>
    /\ UNCHANGED notFl

\* for (const char of text) { await field.type(char, { delay }); }
FlType ==
    /\ flResult = "running"
    /\ flPc = "type"
    /\ IF Len(flKeys) < Len(flText)
       THEN /\ flValue' = TypeChar(flValue, flCaret, flText[Len(flKeys) + 1])
            /\ flCaret' = flCaret + 1
            /\ flKeys' = Append(flKeys, flText[Len(flKeys) + 1])
            /\ UNCHANGED <<flPc, flResult>>
       ELSE /\ flPc' = "typed"
            /\ flResult' = "ok"
            /\ UNCHANGED <<flValue, flCaret, flKeys>>
    /\ UNCHANGED <<flOp, flText, flValue0>>
    /\ UNCHANGED notFl

NextFl ==
    \/ \E ok \in BOOLEAN : FlWaitVisible(ok)
    \/ \E caret \in 0..MaxPrior : FlFocus(caret)
    \/ FlClickAndClear
    \/ FlType

\* one fill of one field
InitFlCall == InitRun /\ IdleSel /\ IdleDd /\ IdleRc /\ IdleCap /\ IdleRt
    /\ IdleRep /\ IdleWt /\ IdleSw /\ InitFl /\ IdleAl /\ IdleBz /\ IdleAu
    /\ IdleSrv

SpecFl == InitFlCall /\ [][NextFl]_vars

\* C23: after a typing-simulation fill of a field with text succeeds, the
\* field's value equals text whatever the field held before the call, and
\* the keystrokes sent are the characters of text, one each, in order.
C23_ValueEqualsText ==
    flResult = "ok" => (flValue = flText /\ flKeys = flText)

----------------------------------------------------------------------------
(* Modal confirmations on one page: TestHelpers.handleSweetAlert, the      *)
(* BasePage.handleAlert that drives the sweet-alert popup, and the         *)
(* BasePage.handleAlert of tests/pages that registers a dialog listener,   *)
(* as AULocationPage.configureAutomobileCoverage calls it after Save.      *)

\* confirmations made on the same page
MaxAlCalls == 3

AlOps == {"handleSweetAlert", "handleAlertPopup", "handleAlertDialog"}

\* handleSweetAlert clicks button.confirm; configureAutomobileCoverage
\* calls handleAlert('accept')
AlActions(op) == IF op = "handleAlertPopup" THEN {"accept", "dismiss"}
                 ELSE {"accept"}

AlStartPc(op) == IF op = "handleAlertDialog" THEN "save" ELSE "begin"

InitAl ==
    /\ alOp \in AlOps
    /\ alAction \in AlActions(alOp)
    /\ alPopup = "absent"
    /\ alTrace = <<>>
    /\ alHandlers = <<>>
    /\ alCall = 1
    /\ alDialog = "none"
    /\ alDialogCalls = 0
    /\ alPc = AlStartPc(alOp)
    /\ alResult = "running"

\* outcome of a dialog delivered to the page's 'dialog' listeners: without
\* a listener the dialog is dismissed by the browser driver, otherwise the
\* first listener's accept() or dismiss() decides
DialogOutcome(handlers) ==
    IF handlers = <<>> THEN "autoDismissed"
    ELSE IF handlers[1] = "accept" THEN "accepted" ELSE "dismissed"

\* the application shows the popup
AlPopupShows ==
    /\ alResult = "running"
    /\ alOp # "handleAlertDialog"
    /\ alPopup = "absent"
    /\ alPc \in {"begin", "waitVisible"}
    /\ alPopup' = "visible"
    /\ UNCHANGED <<alOp, alAction, alPc, alTrace, alHandlers, alCall, alDialog,
                   alDialogCalls, alResult>>
    /\ UNCHANGED notAl

\* configureAutomobileCoverage: await this.clickElement(this.saveButton);
\* the page raises its dialog while the click is handled, later, or never
AlClickSave(raise) ==
    /\ alResult = "running"
    /\ alPc = "save"
    /\ CASE raise = "during" -> /\ alDialog' = DialogOutcome(alHandlers)
                                /\ alDialogCalls' = Len(alHandlers)
         [] raise = "later" -> /\ alDialog' = "pending"
                               /\ alDialogCalls' = 0
         [] OTHER -> /\ alDialog' = "none"
                     /\ alDialogCalls' = 0
    /\ alPc' = "begin"
    /\ UNCHANGED <<alOp, alAction, alPopup, alTrace, alHandlers, alCall,
                   alResult>>
    /\ UNCHANGED notAl

\* the dialog of the last Save opens: every registered listener runs
AlDialogRaised ==
    /\ alDialog = "pending"
    /\ alDialog' = DialogOutcome(alHandlers)
    /\ alDialogCalls' = Len(alHandlers)
    /\ UNCHANGED <<alOp, alAction, alPc, alPopup, alTrace, alHandlers, alCall,
                   alResult>>
    /\ UNCHANGED notAl

\* handleSweetAlert, handleAlertPopup: locate the popup;
\* handleAlertDialog: this.page.on('dialog', ...) and return
AlBegin ==
    /\ alResult = "running"
    /\ alPc = "begin"
    /\ IF alOp = "handleAlertDialog"
       THEN /\ alHandlers' = Append(alHandlers, alAction)
            /\ alPc' = "returned"
            /\ alResult' = "ok"
       ELSE /\ alPc' = "waitVisible"
            /\ UNCHANGED <<alHandlers, alResult>>
    /\ UNCHANGED <<alOp, alAction, alPopup, alTrace, alCall, alDialog,
                   alDialogCalls>>
    /\ UNCHANGED notAl

\* popup.waitFor({ state: 'visible', timeout }) / this.waitForElement(alert)
AlWaitVisible ==
    /\ alResult = "running"
    /\ alPc = "waitVisible"
    /\ IF alPopup = "visible"
       THEN /\ alTrace' = Append(alTrace, "visible")
            /\ alPc' = IF alOp = "handleSweetAlert" THEN "waitButton" ELSE "click"
            /\ UNCHANGED alResult
       ELSE /\ alPc' = "popupTimeout"
            /\ alResult' = "error"
            /\ UNCHANGED alTrace
    /\ UNCHANGED <<alOp, alAction, alPopup, alHandlers, alCall, alDialog,
                   alDialogCalls>>
    /\ UNCHANGED notAl

\* handleSweetAlert: yesButton.waitFor({ state: 'visible', timeout })
AlWaitButton(ok) ==
    /\ alResult = "running"
    /\ alPc = "waitButton"
    /\ IF ok
       THEN alPc' = "click" /\ UNCHANGED alResult
       ELSE alPc' = "buttonTimeout" /\ alResult' = "error"
    /\ UNCHANGED <<alOp, alAction, alPopup, alTrace, alHandlers, alCall,
                   alDialog, alDialogCalls>>
    /\ UNCHANGED notAl

\* yesButton.click() / button.click(): the popup closes, or stays up
AlClick(closes) ==
    /\ alResult = "running"
    /\ alPc = "click"
    /\ alTrace' = Append(alTrace, "clicked")
    /\ alPopup' = IF closes THEN "hidden" ELSE "visible"
    /\ alPc' = "waitHidden"
    /\ UNCHANGED <<alOp, alAction, alHandlers, alCall, alDialog, alDialogCalls,
                   alResult>>
    /\ UNCHANGED notAl

\* popup.waitFor({ state: 'hidden' }): passes once the popup is hidden,
\* throws when it is still shown at the timeout
AlWaitHidden ==
    /\ alResult = "running"
    /\ alPc = "waitHidden"
    /\ IF alPopup = "hidden"
       THEN /\ alTrace' = Append(alTrace, "hidden")
            /\ alPc' = "returned"
            /\ alResult' = "ok"
       ELSE /\ alPc' = "hiddenTimeout"
            /\ alResult' = "error"
            /\ UNCHANGED alTrace
    /\ UNCHANGED <<alOp, alAction, alPopup, alHandlers, alCall, alDialog,
                   alDialogCalls>>
    /\ UNCHANGED notAl

\* the scenario goes on to its next confirmation on the same page
AlNextCall(op, action) ==
    /\ alResult = "ok"
    /\ alDialog # "pending"
    /\ alCall < MaxAlCalls
    /\ action \in AlActions(op)
    /\ alOp' = op
    /\ alAction' = action
    /\ alCall' = alCall + 1
    /\ alPopup' = "absent"
    /\ alTrace' = <<>>
    /\ alPc' = AlStartPc(op)
    /\ alResult' = "running"
    /\ UNCHANGED <<alHandlers, alDialog, alDialogCalls>>
    /\ UNCHANGED notAl

NextAl ==
    \/ AlPopupShows
    \/ \E raise \in {"during", "later", "never"} : AlClickSave(raise)
    \/ AlDialogRaised
    \/ AlBegin
    \/ AlWaitVisible
    \/ \E ok \in BOOLEAN : AlWaitButton(ok)
    \/ \E closes \in BOOLEAN : AlClick(closes)
    \/ AlWaitHidden
    \/ \E op \in AlOps, action \in {"accept", "dismiss"} : AlNextCall(op, action)

\* confirmations on one page
InitAlCall == InitRun /\ IdleSel /\ IdleDd /\ IdleRc /\ IdleCap /\ IdleRt
    /\ IdleRep /\ IdleWt /\ IdleSw /\ IdleFl /\ InitAl /\ IdleBz /\ IdleAu
    /\ IdleSrv

SpecAl == InitAlCall /\ [][NextAl]_vars

\* C24: a modal confirmation returns successfully only after the popup was
\* observed visible, then the confirm or cancel control was clicked, then
\* the popup was observed hidden.
C24_VisibleClickHidden ==
    alResult = "ok" => alTrace = <<"visible", "clicked", "hidden">>

\* C29: every dialog raised by clicking Save in configureAutomobileCoverage
\* is accepted by the listener that handleAlert('accept') installed, and is
\* handled exactly once, however often handleAlert was called on the page.
C29_DialogAcceptedOnce ==
    alDialog \in {"accepted", "dismissed", "autoDismissed"}
        => (alDialog = "accepted" /\ alDialogCalls = 1)

----------------------------------------------------------------------------
(* Waits for the application's busy flag: the class pace-running on        *)
(* document.body.                                                          *)

\* the busy-flag waits a caller makes, in order
BusyWaits(scenario) ==
    CASE scenario = "TS001" -> <<"beforeSearch", "afterSearch">>
      [] scenario = "navigateToQuotes" -> <<"waitForLoadingComplete",
                                            "waitForLoadingComplete",
                                            "waitForLoadingComplete">>
      [] scenario = "TS002" -> <<"waitForPageReady", "waitForPageReady",
                                 "switchStep">>
      [] OTHER -> <<>>

BusyScenarios == {"TS001", "navigateToQuotes", "TS002"}

\* the wait's rejection is caught: try/catch or .catch(() => console.log(..))
BusyCaught(site) == site # "afterSearch"

\* TS001: { timeout: 10000 }
Ts001BusyTimeout == 10000
\* TIMEOUTS.MEDIUM
MediumTimeout == 10000
\* waitForLoadingComplete(timeout = 30000), TIMEOUTS.LONG
LongTimeout == 30000

BusyTimeout(site) ==
    CASE site \in {"beforeSearch", "afterSearch"} -> Ts001BusyTimeout
      [] site = "waitForPageReady" -> MediumTimeout
      [] OTHER -> LongTimeout

BzSite == BusyWaits(bzScenario)[bzIdx]

InitBz ==
    /\ bzScenario \in BusyScenarios
    /\ bzIdx = 1
    /\ bzPc = "call"
    /\ bzBusy \in BOOLEAN
    /\ bzElapsed = 0
    /\ bzTimeouts = 0
    /\ bzLog = <<>>
    /\ bzResult = "running"

\* page.waitForFunction(() => !...contains('pace-running'), { timeout }):
\* resolves at once when the flag is clear, polls otherwise
BzCall ==
    /\ bzResult = "running"
    /\ bzPc = "call"
    /\ bzIdx <= Len(BusyWaits(bzScenario))
    /\ IF bzBusy
       THEN bzPc' = "waiting" /\ UNCHANGED bzIdx
       ELSE bzIdx' = bzIdx + 1 /\ UNCHANGED bzPc
    /\ bzElapsed' = 0
    /\ UNCHANGED <<bzScenario, bzBusy, bzTimeouts, bzLog, bzResult>>
    /\ UNCHANGED notBz

\* the page finishes loading while a wait polls: the wait resolves
BzFlagClears ==
    /\ bzResult = "running"
    /\ bzPc = "waiting"
    /\ bzBusy' = FALSE
    /\ bzPc' = "call"
    /\ bzIdx' = bzIdx + 1
    /\ UNCHANGED <<bzScenario, bzElapsed, bzTimeouts, bzLog, bzResult>>
    /\ UNCHANGED notBz

\* time passes while the flag stays set
BzTick ==
    /\ bzResult = "running"
    /\ bzPc = "waiting"
    /\ bzElapsed + TickMs < BusyTimeout(BzSite)
    /\ bzElapsed' = bzElapsed + TickMs
    /\ UNCHANGED <<bzScenario, bzIdx, bzPc, bzBusy, bzTimeouts, bzLog, bzResult>>
    /\ UNCHANGED notBz

\* the wait times out with the flag still set: the rejection is caught and
\* logged where the call has a catch, and leaves the scenario where not
BzTimeout ==
    /\ bzResult = "running"
    /\ bzPc = "waiting"
    /\ bzElapsed + TickMs >= BusyTimeout(BzSite)
    /\ bzTimeouts' = bzTimeouts + 1
    /\ IF BusyCaught(BzSite)
       THEN /\ bzLog' = Append(bzLog, BzSite)
            /\ bzPc' = "call"
            /\ bzIdx' = bzIdx + 1
            /\ UNCHANGED bzResult
       ELSE /\ bzResult' = "failed"
            /\ bzPc' = "ended"
            /\ UNCHANGED <<bzLog, bzIdx>>
    /\ UNCHANGED <<bzScenario, bzBusy, bzElapsed>>
    /\ UNCHANGED notBz

\* between two waits the scenario acts on the page (searchButton.click(),
\* a navigation), which may set the flag again
BzPageActs(busy) ==
    /\ bzResult = "running"
    /\ bzPc = "call"
    /\ bzIdx > 1
    /\ bzIdx <= Len(BusyWaits(bzScenario))
    /\ bzElapsed = 0
    /\ bzBusy' = busy
    /\ bzBusy' # bzBusy
    /\ UNCHANGED <<bzScenario, bzIdx, bzPc, bzElapsed, bzTimeouts, bzLog,
                   bzResult>>
    /\ UNCHANGED notBz

\* the caller has made all its waits and goes on
BzContinue ==
    /\ bzResult = "running"
    /\ bzPc = "call"
    /\ bzIdx > Len(BusyWaits(bzScenario))
    /\ bzResult' = "passed"
    /\ bzPc' = "ended"
    /\ UNCHANGED <<bzScenario, bzIdx, bzBusy, bzElapsed, bzTimeouts, bzLog>>
    /\ UNCHANGED notBz

NextBz ==
    \/ BzCall
    \/ BzFlagClears
    \/ BzTick
    \/ BzTimeout
    \/ \E busy \in BOOLEAN : BzPageActs(busy)
    \/ BzContinue

\* the busy-flag waits of one caller
InitBzCall == InitRun /\ IdleSel /\ IdleDd /\ IdleRc /\ IdleCap /\ IdleRt
    /\ IdleRep /\ IdleWt /\ IdleSw /\ IdleFl /\ IdleAl /\ InitBz /\ IdleAu
    /\ IdleSrv

SpecBz == InitBzCall /\ [][NextBz]_vars

\* C25: waiting for the busy flag is best-effort everywhere: a wait that
\* times out with the flag still set is logged and its caller continues,
\* no scenario fails because of it.
C25_BusyWaitBestEffort ==
    /\ bzResult # "failed"
    /\ Len(bzLog) = bzTimeouts

----------------------------------------------------------------------------
(* Authentication: LoginPage.login and the `authenticate` setup of         *)
(* auth.setup.ts, started in a browser context that is anonymous or        *)
(* already authenticated (storageState of the chromium project).           *)

InitAu ==
    /\ auOp \in {"login", "setup"}
    /\ auSession \in {"anonymous", "authenticated"}
    /\ auPc = "goto"
    /\ auUrl = "blank"
    /\ auFault = FALSE
    /\ auStored = 0
    /\ auClock = 0
    /\ auLog = <<>>
    /\ auResult = "running"

\* waitForURL(..., { timeout: 30000 }), waitFor({ ..., timeout: 30000 })
AuthWaitTimeout == 30000

\* ms an awaited page state takes to come about
AuDelays == {0, TickMs, 2 * TickMs}

\* a wait that is satisfied after `delay` ms, or runs into its timeout
AuWaited(satisfied, delay) ==
    /\ auClock < TestTimeout
    /\ auClock' = auClock + (IF satisfied THEN delay ELSE AuthWaitTimeout)

\* where page.goto(config.appUrl) ends: an authenticated context stays on
\* the application, an anonymous one is redirected to the identity
\* provider's login page (or ends elsewhere when the provider is down)
Landing(session, idpUp) ==
    IF session = "authenticated" THEN "home"
    ELSE IF idpUp THEN "login" ELSE "other"

\* the operation throws
AuThrow(at) ==
    /\ auPc' = at
    /\ auResult' = "error"

\* await this.page.goto(config.appUrl)
AuGoto(delay, idpUp) ==
    /\ auResult = "running"
    /\ AuWaited(TRUE, delay)
    /\ auPc = "goto"
    /\ auSession = "authenticated" => idpUp
    /\ auUrl' = Landing(auSession, idpUp)
    /\ auFault' = (auFault \/ ~idpUp)
    /\ auPc' = "waitLoginUrl"
    /\ UNCHANGED <<auOp, auSession, auStored, auLog, auResult>>
    /\ UNCHANGED notAu

\* login: await this.page.waitForURL(/.*\/Account\/Login.*/, { timeout })
AuLoginWaitLoginUrl(delay) ==
    /\ auResult = "running"
    /\ AuWaited(auUrl = "login", delay)
    /\ auOp = "login"
    /\ auPc = "waitLoginUrl"
    /\ IF auUrl = "login"
       THEN /\ auPc' = "waitForm"
            /\ auLog' = Append(auLog, "Reached login page")
            /\ UNCHANGED auResult
       ELSE /\ AuThrow("loginUrlTimeout")
            /\ auLog' = Append(auLog, "Login failed")
    /\ UNCHANGED <<auOp, auSession, auUrl, auFault, auStored>>
    /\ UNCHANGED notAu

\* setup: try { waitForURL(/...idserverapp.../) } catch { on the main
\* application: storageState(...) and go on; elsewhere: throw }
AuSetupWaitIdp(delay) ==
    /\ auResult = "running"
    /\ AuWaited(auUrl = "login", delay)
    /\ auOp = "setup"
    /\ auPc = "waitLoginUrl"
    /\ IF auUrl = "login"
       THEN /\ auPc' = "waitForm"
            /\ auLog' = Append(auLog, "Redirected to Azure AD login page")
            /\ UNCHANGED <<auStored, auResult>>
       ELSE IF auUrl \in {"app", "home"}
       THEN /\ auPc' = "waitForm"
            /\ auLog' = Append(auLog, "Already on main app")
            /\ auStored' = auStored + 1
            /\ UNCHANGED auResult
       ELSE /\ AuThrow("idpTimeout")
            /\ auLog' = Append(auLog, "Failed to reach Azure AD login page")
            /\ UNCHANGED auStored
    /\ UNCHANGED <<auOp, auSession, auUrl, auFault>>
    /\ UNCHANGED notAu

\* usernameInput.waitFor({ state: 'visible' }) /
\* getByRole('textbox', { name: 'User Name' }).waitFor({ visible, timeout })
\* : the login form is on the login page only
AuWaitForm(delay) ==
    /\ auResult = "running"
    /\ AuWaited(auUrl = "login", delay)
    /\ auPc = "waitForm"
    /\ IF auUrl = "login"
       THEN auPc' = "submit" /\ UNCHANGED auResult
       ELSE AuThrow("formTimeout")
    /\ UNCHANGED <<auOp, auSession, auUrl, auFault, auStored, auLog>>
    /\ UNCHANGED notAu

\* fill(username); fill(password); loginButton.click(): the identity
\* provider accepts the credentials and redirects, or shows the form again
AuSubmit(accepted) ==
    /\ auResult = "running"
    /\ auClock < TestTimeout
    /\ UNCHANGED auClock
    /\ auPc = "submit"
    /\ auUrl' = IF accepted THEN "callback" ELSE "login"
    /\ auFault' = (auFault \/ ~accepted)
    /\ auPc' = "waitCallback"
    /\ UNCHANGED <<auOp, auSession, auStored, auLog, auResult>>
    /\ UNCHANGED notAu

\* waitForURL(/.*callback\.html.*/, { timeout }); the callback page then
\* forwards to the application, with or without the #/home hash
AuWaitCallback(delay, next) ==
    /\ auResult = "running"
    /\ AuWaited(auUrl = "callback", delay)
    /\ auPc = "waitCallback"
    /\ IF auUrl = "callback"
       THEN /\ auPc' = "waitApp"
            /\ auUrl' = next
            /\ auFault' = (auFault \/ next = "callback")
            /\ auLog' = Append(auLog, "Reached callback page")
            /\ UNCHANGED auResult
       ELSE /\ next = auUrl
            /\ AuThrow("callbackTimeout")
            /\ UNCHANGED <<auUrl, auFault, auLog>>
    /\ UNCHANGED <<auOp, auSession, auStored>>
    /\ UNCHANGED notAu

\* login: waitForURL(/.*Index\.html#\/home.*/); waitForPageReady()
AuLoginWaitHome(delay) ==
    /\ auResult = "running"
    /\ AuWaited(auUrl = "home", delay)
    /\ auOp = "login"
    /\ auPc = "waitApp"
    /\ IF auUrl = "home"
       THEN /\ auPc' = "ended"
            /\ auResult' = "ok"
            /\ auLog' = Append(auLog, "Authentication complete")
       ELSE /\ AuThrow("homeTimeout")
            /\ auLog' = Append(auLog, "Login failed")
    /\ UNCHANGED <<auOp, auSession, auUrl, auFault, auStored>>
    /\ UNCHANGED notAu

\* setup: waitForURL(/.*Index\.html/, { timeout })
AuSetupWaitIndex(delay) ==
    /\ auResult = "running"
    /\ AuWaited(auUrl \in {"app", "home"}, delay)
    /\ auOp = "setup"
    /\ auPc = "waitApp"
    /\ IF auUrl \in {"app", "home"}
       THEN /\ auPc' = "waitHash"
            /\ auLog' = Append(auLog, "Reached main app page")
            /\ UNCHANGED auResult
       ELSE /\ AuThrow("appTimeout")
            /\ UNCHANGED auLog
    /\ UNCHANGED <<auOp, auSession, auUrl, auFault, auStored>>
    /\ UNCHANGED notAu

\* the application routes to its home view
AuHashAppears ==
    /\ auResult = "running"
    /\ auClock < TestTimeout
    /\ UNCHANGED auClock
    /\ auUrl = "app"
    /\ auUrl' = "home"
    /\ UNCHANGED <<auOp, auSession, auPc, auFault, auStored, auLog, auResult>>
    /\ UNCHANGED notAu

\* setup: try { waitForURL(/.*Index\.html#\/home.*/, { timeout: 5000 }) }
\*        catch (error) { console.log('Home page hash not found, ...') }
AuSetupWaitHash ==
    /\ auResult = "running"
    /\ auClock < TestTimeout
    /\ UNCHANGED auClock
    /\ auOp = "setup"
    /\ auPc = "waitHash"
    /\ auLog' = Append(auLog, IF auUrl = "home"
                              THEN "Reached home page with hash"
                              ELSE "Home page hash not found")
    /\ auPc' = "store"
    /\ UNCHANGED <<auOp, auSession, auUrl, auFault, auStored, auResult>>
    /\ UNCHANGED notAu

\* setup: await page.context().storageState({ path: 'playwright/.auth/user.json' })
AuSetupStore ==
    /\ auResult = "running"
    /\ auClock < TestTimeout
    /\ UNCHANGED auClock
    /\ auOp = "setup"
    /\ auPc = "store"
    /\ auStored' = auStored + 1
    /\ auPc' = "ended"
    /\ auResult' = "ok"
    /\ UNCHANGED <<auOp, auSession, auUrl, auFault, auLog>>
    /\ UNCHANGED notAu

\* projects: chromium has dependencies: ['setup'] and
\* storageState: 'playwright/.auth/user.json': after the setup passed, a
\* test starts in a context carrying the stored session and calls login()
AuTestCallsLogin ==
    /\ auOp = "setup"
    /\ auResult = "ok"
    /\ auOp' = "login"
    /\ auSession' = "authenticated"
    /\ auPc' = "goto"
    /\ auUrl' = "blank"
    /\ auFault' = FALSE
    /\ auLog' = <<>>
    /\ auResult' = "running"
    /\ auClock' = 0
    /\ UNCHANGED auStored
    /\ UNCHANGED notAu

\* the runner's test timeout ends the operation
AuTestTimeout ==
    /\ auResult = "running"
    /\ auClock >= TestTimeout
    /\ auFault' = TRUE
    /\ AuThrow("testTimeout")
    /\ UNCHANGED <<auOp, auSession, auUrl, auStored, auClock, auLog>>
    /\ UNCHANGED notAu

NextAu ==
    \/ \E d \in AuDelays, idpUp \in BOOLEAN : AuGoto(d, idpUp)
    \/ \E d \in AuDelays : AuLoginWaitLoginUrl(d)
    \/ \E d \in AuDelays : AuSetupWaitIdp(d)
    \/ \E d \in AuDelays : AuWaitForm(d)
    \/ \E accepted \in BOOLEAN : AuSubmit(accepted)
    \/ \E d \in AuDelays, next \in {"callback", "app", "home"} :
          AuWaitCallback(d, next)
    \/ \E d \in AuDelays : AuLoginWaitHome(d)
    \/ \E d \in AuDelays : AuSetupWaitIndex(d)
    \/ AuTestTimeout
    \/ AuHashAppears
    \/ AuSetupWaitHash
    \/ AuSetupStore
    \/ AuTestCallsLogin

\* one login or one run of the setup
InitAuCall == InitRun /\ IdleSel /\ IdleDd /\ IdleRc /\ IdleCap /\ IdleRt
    /\ IdleRep /\ IdleWt /\ IdleSw /\ IdleFl /\ IdleAl /\ IdleBz /\ InitAu
    /\ IdleSrv

SpecAu == InitAuCall /\ [][NextAu]_vars

\* C27: LoginPage.login completes successfully from every starting session
\* state, also in a context that is already authenticated: it fails only
\* when the environment failed the flow.
C27_LoginFromAnySession ==
    (auOp = "login" /\ auResult = "error") => auFault

\* C28: when the authenticate setup finds the browser already on the main
\* application instead of the identity provider's login page, it stores the
\* authenticated state and completes successfully.
C28_SetupWhenAlreadyOnApp ==
    (auOp = "setup" /\ auSession = "authenticated" /\ auResult # "running")
        => (auResult = "ok" /\ auStored > 0)

----------------------------------------------------------------------------
(* show-custom-report.js: the HTTP server that serves the HTML report.     *)

\* requests the server receives
MaxRequests == 3
RequestIds == 1..MaxRequests
\* req.url of a request
RequestUrls == {"/", "/favicon.ico", "/reports/test-report.html"}

NoRequest == [url |-> "", state |-> "none", status |-> 0]

InitSrv ==
    /\ srvReq = [i \in RequestIds |-> NoRequest]
    /\ srvReport \in BOOLEAN

\* a client sends a request: the 'request' listener is called with it
SrvReceive(i, url) ==
    /\ srvReq[i].state = "none"
    /\ \A j \in 1..(i - 1) : srvReq[j].state # "none"
    /\ srvReq' = [srvReq EXCEPT ![i] = [url |-> url, state |-> "received",
                                        status |-> 0]]
    /\ UNCHANGED srvReport
    /\ UNCHANGED notSrv

\* what the listener does with a request: for '/' it ends the response
\* with the report (200) or with 'Report not found' (404); for any other
\* url it returns without writing or ending the response
Respond(req, reportExists) ==
    IF req.url = "/"
    THEN [req EXCEPT !.state = "responded",
                     !.status = IF reportExists THEN 200 ELSE 404]
    ELSE [req EXCEPT !.state = "leftOpen"]

\* http.createServer((req, res) => { ... }) runs for a received request
SrvHandle(i) ==
    /\ srvReq[i].state = "received"
    /\ srvReq' = [srvReq EXCEPT ![i] = Respond(srvReq[i], srvReport)]
    /\ UNCHANGED srvReport
    /\ UNCHANGED notSrv

\* a test run writes the report, or the reports directory is cleaned
SrvReportChanges ==
    /\ \E i \in RequestIds : srvReq[i].state = "none"
    /\ srvReport' = ~srvReport
    /\ UNCHANGED srvReq
    /\ UNCHANGED notSrv

SrvListener == \E i \in RequestIds : SrvHandle(i)

NextSrv ==
    \/ \E i \in RequestIds, url \in RequestUrls : SrvReceive(i, url)
    \/ SrvListener
    \/ SrvReportChanges

\* the server from listen() on
InitSrvCall == InitRun /\ IdleSel /\ IdleDd /\ IdleRc /\ IdleCap /\ IdleRt
    /\ IdleRep /\ IdleWt /\ IdleSw /\ IdleFl /\ IdleAl /\ IdleBz /\ IdleAu
    /\ InitSrv

\* the listener runs for every request the server received
SpecSrv == InitSrvCall /\ [][NextSrv]_vars /\ WF_vars(SrvListener)

\* C30: every request the report server receives eventually gets a
\* response, whatever its URL path.
C30_EveryRequestAnswered ==
    \A i \in RequestIds :
        (srvReq[i].state = "received") ~> (srvReq[i].state = "responded")

====
